---- MODULE Spec2Model ----
(***************************************************************************)
(* Credential delivery pipeline of SQC-User-Manager                        *)
(* (src/src/services/emailDelivery.ts, settingsStore.ts, safeqClient.ts,   *)
(* src/src/components/ResultsDialog.tsx).                                  *)
(*                                                                         *)
(* A JavaScript string is a sequence of symbols.  The symbols "{", "}",    *)
(* "|", " " and "\n" are the single characters the code's regular          *)
(* expressions and trim() look at; every other symbol is a chunk of text   *)
(* containing none of those characters (a word such as "pin").             *)
(* An optional value (string | null | undefined) is a record               *)
(* [tag, s] built by Str, Null and Undefined.                              *)
(***************************************************************************)
EXTENDS Integers, Naturals, Sequences, FiniteSets, TLC

\* renderTemplate as a pure function
VARIABLES rTemplate, rTokens, rOutput, rPc

\* createContext as a pure function
VARIABLES cRequest, cType, cResult, cPc

\* buildMailtoUrl as a pure function
VARIABLES mSubject, mBody, mUrl, mPc

\* isHtmlContent as a pure function
VARIABLES hText, hResult, hPc

\* validateEmailSettings as a pure function, and what the Graph dispatcher
\* does with the same settings
VARIABLES vSettings, vProblem, vSend, vPc

\* stripHtml as a pure function, applied once and once more to its output
VARIABLES sHtml, sText, sAgain, sPc

\* openMailDrafts and openMailtoUrl working through the drafts
VARIABLES
  oDrafts,        \* per draft: can buildMailtoUrl encode it
  oIndex,         \* loop index
  oPhase,         \* "loop", "timer", "ready" or "opening"
  oClock,         \* milliseconds since the call
  oOpened,        \* opened
  oErrors,        \* number of entries of errors
  oLog,           \* timers set and opens started and ended, in order
  oPc             \* "running", "returned", "rejected" or "off"

\* one ResultsDialog and the runs of handleSendEmails started from it
VARIABLES
  dialogOpen,     \* prop open
  successCount,   \* results.filter((r) => r.success).length
  sendingEmails,  \* state sendingEmails
  emailResults,   \* state emailResults: "null", "sent" or "failed"
  runs            \* per run of handleSendEmails: "sending" or "finished"

\* the settings store: saveSettings and loadSettings
VARIABLES
  kStore,         \* the value under SETTINGS_KEY
  kSettings,      \* argument of the saveSettings call made, if any
  kLoaded,        \* what loadSettings returned
  kPc             \* "start", "saved", "loaded" or "off"

\* the Graph dispatcher working through one batch
VARIABLES
  gMessages,      \* the batch: PreparedEmailMessage[]
  gToken,         \* token provider: "Empty" or "Cached"
  gPhase,         \* what the current message waits for
  gSent,          \* messages handled so far
  gSuccess,       \* success count
  gErrors,        \* recorded failures, one per failed message
  gLog,           \* the HTTP exchanges and cache lookups, in order
  gBatchResult,        \* the batch result
  gPc             \* "dispatch", "returned" or "off"

\* one call of sendCredentialEmails and its environment
VARIABLES
  store,          \* the value under SETTINGS_KEY in the settings store
  isTauri,        \* isTauriEnvironment()
  requests,       \* argument: EmailDeliveryRequest[]
  type,           \* argument: CredentialType
  pc,             \* position of the call
  renders,        \* number of renderTemplate calls made
  templateErrors, \* local templateErrors
  drafts,         \* local drafts
  index,          \* openMailDrafts: loop index
  opened,         \* openMailDrafts: opened
  errors,         \* openMailDrafts: errors / the dispatcher's errors
  attempts,       \* mailto URLs handed to openMailtoUrl, in call order
  graphCalls,     \* argument of each sendGraphEmails invocation
  graphSent,      \* Graph dispatcher: messages handled so far
  graphSuccess,   \* Graph dispatcher: success count
  result,         \* the EmailDeliveryResult the call resolved with
  thrown          \* the error the call rejected with

renderVars == <<rTemplate, rTokens, rOutput, rPc>>

contextVars == <<cRequest, cType, cResult, cPc>>

callVars ==
  <<store, isTauri, requests, type, pc, renders, templateErrors, drafts, index,
    opened, errors, attempts, graphCalls, graphSent, graphSuccess, result, thrown>>

mailtoVars == <<mSubject, mBody, mUrl, mPc>>

htmlVars == <<hText, hResult, hPc>>

validateVars == <<vSettings, vProblem, vSend, vPc>>

dispatchVars ==
  <<gMessages, gToken, gPhase, gSent, gSuccess, gErrors, gLog, gBatchResult, gPc>>

stripVars == <<sHtml, sText, sAgain, sPc>>

openVars == <<oDrafts, oIndex, oPhase, oClock, oOpened, oErrors, oLog, oPc>>

dialogVars == <<dialogOpen, successCount, sendingEmails, emailResults, runs>>

storeVars == <<kStore, kSettings, kLoaded, kPc>>

auxVars == <<stripVars, openVars, dialogVars, storeVars>>

\* the variables of the pure functions and of the dispatcher
pureVars ==
  <<renderVars, contextVars, mailtoVars, htmlVars, validateVars, dispatchVars,
    auxVars>>

\* every variable but those in auxVars
baseVars ==
  <<renderVars, contextVars, mailtoVars, htmlVars, validateVars, dispatchVars,
    callVars>>

vars == <<pureVars, callVars>>

\* ------------------------------------------------------------------------
\* Strings and optional values
\* ------------------------------------------------------------------------

Str(s) == [tag |-> "str", s |-> s]

Undefined == [tag |-> "undefined", s |-> <<>>]

Null == [tag |-> "null", s |-> <<>>]

\* a ?? b
Coalesce(a, b) == IF a.tag = "str" THEN a ELSE b

\* a ?? ""  as a plain string
OrEmpty(a) == IF a.tag = "str" THEN a.s ELSE <<>>

\* JavaScript truthiness of string | null | undefined
Truthy(a) == a.tag = "str" /\ a.s # <<>>

IsSpace(c) == c \in {" ", "\n", "\t", "\r"}

RECURSIVE TrimStart(_)
TrimStart(s) ==
  IF s # <<>> /\ IsSpace(Head(s)) THEN TrimStart(Tail(s)) ELSE s

RECURSIVE TrimEnd(_)
TrimEnd(s) ==
  IF s # <<>> /\ IsSpace(s[Len(s)]) THEN TrimEnd(SubSeq(s, 1, Len(s) - 1)) ELSE s

\* String.prototype.trim
Trim(s) == TrimEnd(TrimStart(s))

SeqsUpTo(S, n) == UNION {[1..m -> S] : m \in 0..n}

RECURSIVE Flatten(_)
Flatten(ss) == IF ss = <<>> THEN <<>> ELSE Head(ss) \o Flatten(Tail(ss))

\* ------------------------------------------------------------------------
\* renderTemplate
\* ------------------------------------------------------------------------

\* first position k >= j holding "}", or Len(t) + 1
RECURSIVE RunEnd(_, _)
RunEnd(t, j) == IF j > Len(t) \/ t[j] = "}" THEN j ELSE RunEnd(t, j + 1)

\* TOKEN_PATTERN = /{{\s*([^}]+)\s*}}/ anchored at position i: the position
\* of the last character of the match, or 0 when there is no match at i.
\* Everything between "{{" and "}}" is matched by \s*, [^}]+ and \s*, none
\* of which accepts "}", and [^}]+ needs one character.
TokenMatchEnd(t, i) ==
  IF i + 1 <= Len(t) /\ t[i] = "{" /\ t[i + 1] = "{"
  THEN LET k == RunEnd(t, i + 2)
       IN IF k > i + 2 /\ k + 1 <= Len(t) /\ t[k + 1] = "}" THEN k + 1 ELSE 0
  ELSE 0

\* the capture group: the greedy leading \s* takes the leading white space
\* (all but the last character when the run is white space only), [^}]+
\* takes the rest and the trailing \s* takes nothing.
TokenExpression(t, i) ==
  LET run == SubSeq(t, i + 2, TokenMatchEnd(t, i) - 2)
      rest == TrimStart(run)
  IN IF rest = <<>> THEN <<run[Len(run)]>> ELSE rest

\* expression.split("||")
RECURSIVE SplitOr(_, _)
SplitOr(s, acc) ==
  IF s = <<>> THEN <<acc>>
  ELSE IF Len(s) >= 2 /\ s[1] = "|" /\ s[2] = "|"
       THEN <<acc>> \o SplitOr(SubSeq(s, 3, Len(s)), <<>>)
       ELSE SplitOr(Tail(s), Append(acc, Head(s)))

\* expression.split("||").map((chunk) => chunk.trim())
Fallbacks(expression) ==
  LET parts == SplitOr(expression, <<>>)
  IN [n \in 1..Len(parts) |-> Trim(parts[n])]

\* tokens[key]: the own properties of the object literal, then the
\* properties every object literal inherits from Object.prototype.
\* A value is [kind, s, length]: a string, a function (length = its number
\* of formal parameters, s = its text when converted to a string), another
\* object, or undefined.
StringValue(s) == [kind |-> "string", s |-> s, length |-> Len(s)]

FunctionValue(name, arity) ==
  [kind |-> "function",
   s |-> <<"function", " ", name, "(", ")", " ", "{", " ", "[", "native", " ",
          "code", "]", " ", "}">>,
   length |-> arity]

UndefinedValue == [kind |-> "undefined", s |-> <<>>, length |-> 0]

TokenKeys == {"userName", "fullName", "email", "pin", "otp"}

TokenLookup(tokens, key) ==
  IF Len(key) = 1 /\ key[1] \in TokenKeys THEN StringValue(tokens[key[1]])
  ELSE IF key = <<"constructor">> THEN FunctionValue("Object", 1)
  ELSE IF key = <<"hasOwnProperty">> THEN FunctionValue("hasOwnProperty", 1)
  ELSE IF key = <<"toString">> THEN FunctionValue("toString", 0)
  ELSE IF key = <<"__proto__">> THEN [kind |-> "object", s |-> <<>>, length |-> 0]
  ELSE UndefinedValue

\* value && value.length > 0   (an object without length: undefined > 0)
Usable(value) ==
  /\ value.kind \in {"string", "function"}
  /\ value.kind = "string" => value.s # <<>>
  /\ value.length > 0

\* the replacer callback: the first usable candidate, or ""
RECURSIVE FirstUsable(_, _, _)
FirstUsable(fallbacks, n, tokens) ==
  IF n > Len(fallbacks) THEN <<>>
  ELSE LET value == TokenLookup(tokens, fallbacks[n])
       IN IF Usable(value) THEN value.s
          ELSE FirstUsable(fallbacks, n + 1, tokens)

\* variant: a token without a usable candidate is left in place
ReplacementKeepsUnresolved(expression, tokens) ==
  IF FirstUsable(Fallbacks(expression), 1, tokens) = <<>>
  THEN <<"{", "{">> \o expression \o <<"}", "}">>
  ELSE FirstUsable(Fallbacks(expression), 1, tokens)

Replacement(expression, tokens) == FirstUsable(Fallbacks(expression), 1, tokens)

\* template.replace(TOKEN_PATTERN, callback): matches are found left to
\* right in the template, the search resumes after each match, and the
\* text returned by the callback is copied to the result.
RECURSIVE ReplaceFrom(_, _, _)
ReplaceFrom(t, i, tokens) ==
  IF i > Len(t) THEN <<>>
  ELSE IF TokenMatchEnd(t, i) > 0
       THEN Replacement(TokenExpression(t, i), tokens)
              \o ReplaceFrom(t, TokenMatchEnd(t, i) + 1, tokens)
       ELSE <<t[i]>> \o ReplaceFrom(t, i + 1, tokens)

\* variant: the result is scanned again
RenderTemplateRescans(template, tokens) ==
  ReplaceFrom(ReplaceFrom(template, 1, tokens), 1, tokens)

RenderTemplate(template, tokens) == ReplaceFrom(template, 1, tokens)

\* ------------------------------------------------------------------------
\* settingsStore.ts
\* ------------------------------------------------------------------------

Template(subject, body) == [subject |-> subject, body |-> body]

\* abridged: the document shell with a head section, a heading with the
\* greeting and the credential in a div followed by a line break
DefaultBody(credential) ==
  <<"<", "html", ">", "<", "head", ">", "css", "<", "/", "head", ">",
    "<", "h2", ">", "{", "{", "fullName", "|", "|", "userName", "}", "}",
    "<", "/", "h2", ">",
    "<", "div", ">", "{", "{", credential, "}", "}", "<", "br", ">",
    "<", "/", "div", ">">>

DEFAULT_PIN_TEMPLATE ==
  Template(<<"SAFEQ", " ", "Cloud", " ", "PIN">>, DefaultBody("pin"))

DEFAULT_OTP_TEMPLATE ==
  Template(<<"SAFEQ", " ", "Cloud", " ", "OTP">>, DefaultBody("otp"))

getDefaultEmailSettings ==
  [method |-> "desktop",
   graphTenantId |-> Undefined, graphClientId |-> Undefined,
   graphClientSecret |-> Undefined, graphSenderAddress |-> Undefined,
   pinTemplate |-> DEFAULT_PIN_TEMPLATE,
   otpTemplate |-> DEFAULT_OTP_TEMPLATE]

\* value?.trim() ? trimmed : undefined
normalizeOptional(value) ==
  IF value.tag = "str" /\ Trim(value.s) # <<>> THEN Str(Trim(value.s)) ELSE Undefined

\* a stored template is [present, subject, body], subject and body optional
StoredTemplate(subject, body) ==
  [present |-> TRUE, subject |-> subject, body |-> body]

NoStoredTemplate == [present |-> FALSE, subject |-> Undefined, body |-> Undefined]

\* variant: only a missing template is replaced
normalizeTemplateIfMissing(candidate, fallback) ==
  IF ~candidate.present THEN fallback
  ELSE [subject |-> Trim(OrEmpty(candidate.subject)),
        body |-> Trim(OrEmpty(candidate.body))]

\* candidate.subject?.trim() || fallback.subject
normalizeTemplate(candidate, fallback) ==
  IF ~candidate.present THEN fallback
  ELSE [subject |-> IF Truthy(Str(Trim(OrEmpty(candidate.subject))))
                    THEN Trim(candidate.subject.s) ELSE fallback.subject,
        body |-> IF Truthy(Str(Trim(OrEmpty(candidate.body))))
                 THEN Trim(candidate.body.s) ELSE fallback.body]

\* stored email settings are [present, method, graph..., pinTemplate, otpTemplate]
normalizeEmailSettings(raw) ==
  IF ~raw.present THEN getDefaultEmailSettings
  ELSE [method |-> IF raw.method = "" THEN "desktop" ELSE raw.method,
        graphTenantId |-> normalizeOptional(raw.graphTenantId),
        graphClientId |-> normalizeOptional(raw.graphClientId),
        graphClientSecret |-> normalizeOptional(raw.graphClientSecret),
        graphSenderAddress |-> normalizeOptional(raw.graphSenderAddress),
        pinTemplate |-> normalizeTemplate(raw.pinTemplate, DEFAULT_PIN_TEMPLATE),
        otpTemplate |-> normalizeTemplate(raw.otpTemplate, DEFAULT_OTP_TEMPLATE)]

\* loadSettings: null when nothing is stored, else the stored document with
\* emailSettings normalised.
\* A settings value is [isNull, hasEmailSettings, emailSettings].
NullSettings ==
  [isNull |-> TRUE, hasEmailSettings |-> FALSE,
   emailSettings |-> getDefaultEmailSettings]

\* variant: defaults are returned when nothing is stored
loadSettingsWithDefaults(raw) ==
  [isNull |-> FALSE, hasEmailSettings |-> TRUE,
   emailSettings |-> IF raw.present THEN normalizeEmailSettings(raw.emailSettings)
                     ELSE getDefaultEmailSettings]

loadSettings(raw) ==
  IF ~raw.present THEN NullSettings
  ELSE [isNull |-> FALSE, hasEmailSettings |-> TRUE,
        emailSettings |-> normalizeEmailSettings(raw.emailSettings)]

\* ------------------------------------------------------------------------
\* emailDelivery.ts: createContext
\* ------------------------------------------------------------------------

NoTokens ==
  [userName |-> <<>>, fullName |-> <<>>, email |-> <<>>, pin |-> <<>>, otp |-> <<>>]

\* type.toUpperCase()
ToUpperCase(t) == IF t = "pin" THEN "PIN" ELSE "OTP"

MissingEmailError(userName) ==
  userName \o <<": user is missing an email address.">>

NoValueError(userName, t) ==
  userName \o <<": no ", ToUpperCase(t), " value is available to send.">>

\* variant: the error does not name the user
EmptyRenderErrorUnnamed(userName) ==
  <<"template subject or body is empty after rendering.">>

EmptyRenderError(userName) ==
  userName \o <<": template subject or body is empty after rendering.">>

\* variant: request.pinOverride || request.user.shortId || null
pinValueOr(request) ==
  IF Truthy(request.pinOverride) THEN request.pinOverride
  ELSE IF Truthy(request.user.shortId) THEN request.user.shortId
  ELSE Null

\* request.pinOverride ?? request.user.shortId ?? null
pinValue(request) == Coalesce(request.pinOverride, Coalesce(request.user.shortId, Null))

\* request.otpOverride ?? request.user.otp ?? null
otpValue(request) == Coalesce(request.otpOverride, Coalesce(request.user.otp, Null))

credentialValue(request, t) == IF t = "pin" THEN pinValue(request) ELSE otpValue(request)

\* variant: the email is not trimmed
createContextUntrimmed(request, t) ==
  LET email == IF request.user.email.tag = "str" THEN request.user.email.s ELSE <<>>
  IN IF email = <<>>
     THEN [ok |-> FALSE, error |-> MissingEmailError(request.user.userName),
           tokens |-> NoTokens]
     ELSE IF ~Truthy(credentialValue(request, t))
     THEN [ok |-> FALSE, error |-> NoValueError(request.user.userName, t),
           tokens |-> NoTokens]
     ELSE [ok |-> TRUE, error |-> <<>>,
           tokens |-> [userName |-> request.user.userName,
                       fullName |-> OrEmpty(request.user.fullName),
                       email |-> email,
                       pin |-> OrEmpty(pinValue(request)),
                       otp |-> OrEmpty(otpValue(request))]]

\* variant: the credential is looked at before the email
createContextValueFirst(request, t) ==
  LET email == IF request.user.email.tag = "str"
               THEN Trim(request.user.email.s) ELSE <<>>
  IN IF ~Truthy(credentialValue(request, t))
     THEN [ok |-> FALSE, error |-> NoValueError(request.user.userName, t),
           tokens |-> NoTokens]
     ELSE IF email = <<>>
     THEN [ok |-> FALSE, error |-> MissingEmailError(request.user.userName),
           tokens |-> NoTokens]
     ELSE [ok |-> TRUE, error |-> <<>>,
           tokens |-> [userName |-> request.user.userName,
                       fullName |-> OrEmpty(request.user.fullName),
                       email |-> email,
                       pin |-> OrEmpty(pinValue(request)),
                       otp |-> OrEmpty(otpValue(request))]]

\* the result is [ok, error, tokens]: { tokens } when ok, { error } otherwise
createContext(request, t) ==
  LET email == IF request.user.email.tag = "str"
               THEN Trim(request.user.email.s) ELSE <<>>
  IN IF email = <<>>
     THEN [ok |-> FALSE, error |-> MissingEmailError(request.user.userName),
           tokens |-> NoTokens]
     ELSE IF ~Truthy(credentialValue(request, t))
     THEN [ok |-> FALSE, error |-> NoValueError(request.user.userName, t),
           tokens |-> NoTokens]
     ELSE [ok |-> TRUE, error |-> <<>>,
           tokens |-> [userName |-> request.user.userName,
                       fullName |-> OrEmpty(request.user.fullName),
                       email |-> email,
                       pin |-> OrEmpty(pinValue(request)),
                       otp |-> OrEmpty(otpValue(request))]]

\* ------------------------------------------------------------------------
\* emailDelivery.ts: isHtmlContent and stripHtml
\*
\* In HTML text the further single-character symbols are "<", ">", "/",
\* "!", "-", "[", "]", "&" and ";".  A tag name is never split over two
\* words.  TagNames(w) lists the tag names the regular expressions mention
\* that the word w starts with, letter case ignored; LowerCase(w) is w in
\* lower case.  Both are tables over the words the model uses.
\* ------------------------------------------------------------------------

\* variant: the pattern is matched case-sensitively
LowerCaseKept(w) == w

LowerCase(w) ==
  CASE w = "P" -> "p"
    [] w = "BR" -> "br"
    [] w = "DOCTYPE" -> "doctype"
    [] w = "PIN" -> "pin"
    [] w = "OTP" -> "otp"
    [] w = "Ann" -> "ann"
    [] w = "Hello" -> "hello"
    [] w = "Thanks" -> "thanks"
    [] w = "Administrator" -> "administrator"
    [] w = "SAFEQ" -> "safeq"
    [] w = "Cloud" -> "cloud"
    [] w = "CDATA" -> "cdata"
    [] w = "Object" -> "object"
    [] w = "EM" -> "em"
    [] w = "H3" -> "h3"
    [] w = "Td" -> "td"
    [] OTHER -> w

TagNames(w) ==
  LET l == LowerCase(w)
  IN CASE l \in {"p", "pin"} -> {"p"}
       [] l \in {"a", "ann", "alice", "administrator"} -> {"a"}
       [] l \in {"em", "email"} -> {"em"}
       [] l \in {"th", "thanks", "there"} -> {"th"}
       [] l \in {"div", "br", "span", "strong", "h1", "h2", "h3", "h4", "h5",
                 "h6", "ul", "ol", "li", "table", "tr", "td", "img", "html",
                 "body", "head", "style", "script", "doctype"} -> {l}
       [] OTHER -> {}

HtmlTagNames ==
  {"p", "div", "br", "span", "strong", "em", "h1", "h2", "h3", "h4", "h5", "h6",
   "ul", "ol", "li", "table", "tr", "td", "th", "a", "img", "html", "body", "head"}

HeadingNames == {"h1", "h2", "h3", "h4", "h5", "h6"}

\* first position j >= i with s[j] = c, or 0
RECURSIVE FirstAt(_, _, _)
FirstAt(s, i, c) ==
  IF i > Len(s) THEN 0 ELSE IF s[i] = c THEN i ELSE FirstAt(s, i + 1, c)

At(s, i) == IF i >= 1 /\ i <= Len(s) THEN s[i] ELSE ""

\* /<(p|div|...|head)[^>]*>/i.test(content)
isHtmlContent(content) ==
  \E i \in 1..Len(content) :
    /\ content[i] = "<"
    /\ TagNames(At(content, i + 1)) \cap HtmlTagNames # {}
    /\ FirstAt(content, i + 2, ">") > 0

\* "<" "/"? name [^>]* ">" at i: the position of the ">", or 0.
\* slash is "no", "optional" or "required".
OpenTagEnd(s, i, slash, names) ==
  LET j == IF slash # "no" /\ At(s, i + 1) = "/" THEN i + 2 ELSE i + 1
  IN IF At(s, i) = "<" /\ (slash = "required" => At(s, i + 1) = "/")
          /\ TagNames(At(s, j)) \cap names # {}
     THEN FirstAt(s, j + 1, ">")
     ELSE 0

\* "</" name ">" at i, the name exactly one of names: position of ">", or 0
CloseTagEnd(s, i, names) ==
  IF At(s, i) = "<" /\ At(s, i + 1) = "/" /\ LowerCase(At(s, i + 2)) \in names
       /\ At(s, i + 3) = ">"
  THEN i + 3 ELSE 0

\* the first closing tag </name> that starts at or after i, skipping any
\* character ([\s\S]*?) or any character but a line break (.*?): the
\* position where it starts, or 0
RECURSIVE LazyClose(_, _, _, _)
LazyClose(s, i, names, dotAll) ==
  IF i > Len(s) THEN 0
  ELSE IF CloseTagEnd(s, i, names) > 0 THEN i
  ELSE IF ~dotAll /\ s[i] \in {"\n", "\r"} THEN 0
  ELSE LazyClose(s, i + 1, names, dotAll)

\* first position j >= i where the symbols of lit start, or 0
RECURSIVE FindLiteral(_, _, _)
FindLiteral(s, i, lit) ==
  IF i + Len(lit) - 1 > Len(s) THEN 0
  ELSE IF SubSeq(s, i, i + Len(lit) - 1) = lit THEN i
  ELSE FindLiteral(s, i + 1, lit)

\* open [\s\S]*? close, both literal: position of the last symbol, or 0
LiteralBlockEnd(s, i, open, close) ==
  IF i + Len(open) - 1 <= Len(s) /\ SubSeq(s, i, i + Len(open) - 1) = open
  THEN LET c == FindLiteral(s, i + Len(open), close)
       IN IF c > 0 THEN c + Len(close) - 1 ELSE 0
  ELSE 0

\* <name[^>]*>[\s\S]*?</name> (or .*? for a heading): position of the last
\* symbol, or 0
ElementEnd(s, i, names, dotAll) ==
  LET o == OpenTagEnd(s, i, "no", names)
  IN IF o = 0 THEN 0
     ELSE LET c == LazyClose(s, o + 1, names, dotAll)
          IN IF c = 0 THEN 0 ELSE c + 3

RECURSIVE SkipSpaces(_, _)
SkipSpaces(s, i) == IF IsSpace(At(s, i)) THEN SkipSpaces(s, i + 1) ELSE i

\* /<br\s*\/?>/i at i
BreakEnd(s, i) ==
  IF At(s, i) = "<" /\ LowerCase(At(s, i + 1)) = "br"
  THEN LET j == SkipSpaces(s, i + 2)
           k == IF At(s, j) = "/" THEN j + 1 ELSE j
       IN IF At(s, k) = ">" THEN k ELSE 0
  ELSE 0

\* variant: the remaining tags are left in place
AnyTagEndNever(s, i) == 0

\* /<[^>]+>/ at i
AnyTagEnd(s, i) ==
  IF At(s, i) = "<" /\ i + 1 <= Len(s) /\ s[i + 1] # ">"
  THEN FirstAt(s, i + 2, ">") ELSE 0

\* "&" name ";" at i
EntityEnd(s, i, name) ==
  IF At(s, i) = "&" /\ At(s, i + 1) = name /\ At(s, i + 2) = ";" THEN i + 2 ELSE 0

BlockTagNames == {"p", "div", "ul", "ol", "li", "table", "tr", "td", "th"}

\* the replace calls of stripHtml, in order: where the pattern matches at i
\* (position of the last symbol, or 0)
StripMatchEnd(step, s, i) ==
  CASE step = "doctype" ->
         IF At(s, i) = "<" /\ At(s, i + 1) = "!"
              /\ "doctype" \in TagNames(At(s, i + 2))
         THEN FirstAt(s, i + 3, ">") ELSE 0
    [] step = "comment" ->
         LiteralBlockEnd(s, i, <<"<", "!", "-", "-">>, <<"-", "-", ">">>)
    [] step = "cdata" ->
         LiteralBlockEnd(s, i, <<"<", "!", "[", "CDATA", "[">>, <<"]", "]", ">">>)
    [] step = "headBlock" -> ElementEnd(s, i, {"head"}, TRUE)
    [] step = "styleBlock" -> ElementEnd(s, i, {"style"}, TRUE)
    [] step = "scriptBlock" -> ElementEnd(s, i, {"script"}, TRUE)
    [] step = "htmlTag" -> OpenTagEnd(s, i, "optional", {"html"})
    [] step = "bodyTag" -> OpenTagEnd(s, i, "optional", {"body"})
    [] step = "headTag" -> OpenTagEnd(s, i, "optional", {"head"})
    [] step = "heading" -> ElementEnd(s, i, HeadingNames, FALSE)
    [] step = "br" -> BreakEnd(s, i)
    [] step = "blockClose" -> CloseTagEnd(s, i, {"p", "div", "li"})
    [] step = "cellClose" -> CloseTagEnd(s, i, {"tr", "th", "td"})
    [] step = "blockOpen" -> OpenTagEnd(s, i, "no", BlockTagNames)
    [] step = "anyTag" -> AnyTagEnd(s, i)
    [] step = "nbsp" -> EntityEnd(s, i, "nbsp")
    [] step = "amp" -> EntityEnd(s, i, "amp")
    [] step = "lt" -> EntityEnd(s, i, "lt")
    [] step = "gt" -> EntityEnd(s, i, "gt")
    [] step = "quot" -> EntityEnd(s, i, "quot")
    [] step = "num39" -> EntityEnd(s, i, "#39")
    [] step = "apos" -> EntityEnd(s, i, "apos")

\* what the match s[i..e] is replaced by
StripReplacement(step, s, i, e) ==
  CASE step = "heading" ->
         SubSeq(s, OpenTagEnd(s, i, "no", HeadingNames) + 1, e - 4) \o <<"\n", "\n">>
    [] step = "br" -> <<"\n">>
    [] step = "blockClose" -> <<"\n", "\n">>
    [] step = "cellClose" -> <<"\n">>
    [] step = "nbsp" -> <<" ">>
    [] step = "amp" -> <<"&">>
    [] step = "lt" -> <<"<">>
    [] step = "gt" -> <<">">>
    [] step = "quot" -> <<"\"">>
    [] step = "num39" -> <<"'">>
    [] step = "apos" -> <<"'">>
    [] OTHER -> <<>>

\* text.replace(pattern, replacement) with the g flag; every pattern starts
\* with "<" or "&"
RECURSIVE StripReplaceFrom(_, _, _)
StripReplaceFrom(step, s, i) ==
  IF i > Len(s) THEN <<>>
  ELSE LET e == IF s[i] \in {"<", "&"} THEN StripMatchEnd(step, s, i) ELSE 0
       IN IF e > 0
          THEN StripReplacement(step, s, i, e) \o StripReplaceFrom(step, s, e + 1)
          ELSE <<s[i]>> \o StripReplaceFrom(step, s, i + 1)

StripSteps ==
  <<"doctype", "comment", "cdata", "headBlock", "styleBlock", "scriptBlock",
    "htmlTag", "bodyTag", "headTag", "heading", "br", "blockClose", "cellClose",
    "blockOpen", "anyTag", "nbsp", "amp", "lt", "gt", "quot", "num39", "apos">>

RECURSIVE StripApply(_, _)
StripApply(n, s) ==
  IF n > Len(StripSteps) THEN s
  ELSE StripApply(n + 1, StripReplaceFrom(StripSteps[n], s, 1))

IsBlank(c) == c \in {" ", "\t"}

\* text.replace(/[ \t]+/g, " ")
RECURSIVE CollapseBlanks(_)
CollapseBlanks(s) ==
  IF s = <<>> THEN <<>>
  ELSE IF IsBlank(s[1])
       THEN IF Len(s) >= 2 /\ IsBlank(s[2]) THEN CollapseBlanks(Tail(s))
            ELSE <<" ">> \o CollapseBlanks(Tail(s))
       ELSE <<s[1]>> \o CollapseBlanks(Tail(s))

RECURSIVE SkipChar(_, _, _)
SkipChar(s, i, c) == IF At(s, i) = c THEN SkipChar(s, i + 1, c) ELSE i

\* text.replace(/ *\n */g, "\n")
RECURSIVE TrimAroundNewlines(_, _)
TrimAroundNewlines(s, i) ==
  IF i > Len(s) THEN <<>>
  ELSE LET n == SkipChar(s, i, " ")
       IN IF At(s, n) = "\n"
          THEN <<"\n">> \o TrimAroundNewlines(s, SkipChar(s, n + 1, " "))
          ELSE <<s[i]>> \o TrimAroundNewlines(s, i + 1)

\* text.replace(/\n{3,}/g, "\n\n")
RECURSIVE CollapseNewlines(_, _)
CollapseNewlines(s, i) ==
  IF i > Len(s) THEN <<>>
  ELSE LET n == SkipChar(s, i, "\n")
       IN IF n - i >= 3 THEN <<"\n", "\n">> \o CollapseNewlines(s, n)
          ELSE <<s[i]>> \o CollapseNewlines(s, i + 1)

\* text.split("\n")
RECURSIVE SplitLines(_, _)
SplitLines(s, acc) ==
  IF s = <<>> THEN <<acc>>
  ELSE IF s[1] = "\n" THEN <<acc>> \o SplitLines(Tail(s), <<>>)
  ELSE SplitLines(Tail(s), Append(acc, s[1]))

\* lines.map((line) => line.trim()).join("\n")
RECURSIVE JoinTrimmed(_)
JoinTrimmed(lines) ==
  IF Len(lines) = 1 THEN Trim(lines[1])
  ELSE Trim(lines[1]) \o <<"\n">> \o JoinTrimmed(Tail(lines))

RECURSIVE DropLeadingNewlines(_)
DropLeadingNewlines(s) ==
  IF s # <<>> /\ s[1] = "\n" THEN DropLeadingNewlines(Tail(s)) ELSE s

RECURSIVE DropTrailingNewlines(_)
DropTrailingNewlines(s) ==
  IF s # <<>> /\ s[Len(s)] = "\n"
  THEN DropTrailingNewlines(SubSeq(s, 1, Len(s) - 1)) ELSE s

stripHtml(html) ==
  LET text == StripApply(1, html)
      spaced == CollapseNewlines(TrimAroundNewlines(CollapseBlanks(text), 1), 1)
      lines == JoinTrimmed(SplitLines(spaced, <<>>))
  IN DropTrailingNewlines(DropLeadingNewlines(lines))

\* ------------------------------------------------------------------------
\* emailDelivery.ts: buildMailtoUrl
\* ------------------------------------------------------------------------

\* half of a surrogate pair on its own
LoneSurrogate == "\\uD83D"

Range(s) == {s[i] : i \in 1..Len(s)}

\* encodeURIComponent throws URIError on a lone surrogate
CanEncode(s) == LoneSurrogate \notin Range(s)

\* the escape of one symbol; words consist of unreserved characters
PercentEncode(c) ==
  CASE c = " " -> "%20"
    [] c = "\n" -> "%0A"
    [] c = "\r" -> "%0D"
    [] c = "\t" -> "%09"
    [] c = "{" -> "%7B"
    [] c = "}" -> "%7D"
    [] c = "|" -> "%7C"
    [] c = "<" -> "%3C"
    [] c = ">" -> "%3E"
    [] c = "/" -> "%2F"
    [] c = "&" -> "%26"
    [] c = ";" -> "%3B"
    [] c = "@" -> "%40"
    [] c = "[" -> "%5B"
    [] c = "]" -> "%5D"
    [] c = "\"" -> "%22"
    [] c = "%" -> "%25"
    [] OTHER -> c

encodeURIComponent(s) == [i \in 1..Len(s) |-> PercentEncode(s[i])]

\* body.replace(/\r?\n/g, "\r\n")
RECURSIVE NormalizeNewlines(_)
NormalizeNewlines(s) ==
  IF s = <<>> THEN <<>>
  ELSE IF s[1] = "\n" THEN <<"\r", "\n">> \o NormalizeNewlines(Tail(s))
  ELSE IF Len(s) >= 2 /\ s[1] = "\r" /\ s[2] = "\n"
       THEN <<"\r", "\n">> \o NormalizeNewlines(SubSeq(s, 3, Len(s)))
  ELSE <<s[1]>> \o NormalizeNewlines(Tail(s))

\* variant: the line breaks of the body are left as they are
buildMailtoUrlAsIs(to, subject, body) ==
  <<"mailto:">> \o to \o <<"?subject=">> \o encodeURIComponent(subject)
    \o <<"&body=">> \o encodeURIComponent(body)

buildMailtoUrl(to, subject, body) ==
  <<"mailto:">> \o to \o <<"?subject=">> \o encodeURIComponent(subject)
    \o <<"&body=">> \o encodeURIComponent(NormalizeNewlines(body))

\* ------------------------------------------------------------------------
\* emailDelivery.ts: sendCredentialEmails
\* ------------------------------------------------------------------------

NoDraft == [to |-> <<>>, subject |-> <<>>, body |-> <<>>, isHtml |-> FALSE]

\* what one request contributes: an entry of templateErrors or a draft
RequestOutcome(request, t, template) ==
  LET context == createContext(request, t)
  IN IF ~context.ok
     THEN [kind |-> "error", error |-> context.error, draft |-> NoDraft]
     ELSE LET subject == Trim(RenderTemplate(template.subject, context.tokens))
              body == Trim(RenderTemplate(template.body, context.tokens))
          IN IF subject = <<>> \/ body = <<>>
             THEN [kind |-> "error",
                   error |-> EmptyRenderError(context.tokens.userName),
                   draft |-> NoDraft]
             ELSE [kind |-> "draft", error |-> <<>>,
                   draft |-> [to |-> context.tokens.email, subject |-> subject,
                              body |-> body, isHtml |-> isHtmlContent(body)]]

Outcomes(reqs, t, template) ==
  [i \in 1..Len(reqs) |-> RequestOutcome(reqs[i], t, template)]

RECURSIVE ErrorsOf(_)
ErrorsOf(outcomes) ==
  IF outcomes = <<>> THEN <<>>
  ELSE (IF Head(outcomes).kind = "error" THEN <<Head(outcomes).error>> ELSE <<>>)
         \o ErrorsOf(Tail(outcomes))

RECURSIVE DraftsOf(_)
DraftsOf(outcomes) ==
  IF outcomes = <<>> THEN <<>>
  ELSE (IF Head(outcomes).kind = "draft" THEN <<Head(outcomes).draft>> ELSE <<>>)
         \o DraftsOf(Tail(outcomes))

\* renderTemplate is called twice for every request that has a context
RenderCalls(reqs, t) ==
  2 * Cardinality({i \in 1..Len(reqs) : createContext(reqs[i], t).ok})

\* type === "pin" ? emailSettings.pinTemplate : emailSettings.otpTemplate
TemplateFor(emailSettings, t) ==
  IF t = "pin" THEN emailSettings.pinTemplate ELSE emailSettings.otpTemplate

\* variant: every message is sent as text
PreparedMessageAsText(draft) ==
  [to |-> draft.to, subject |-> draft.subject, body |-> draft.body,
   isHtml |-> draft.isHtml, contentType |-> "text"]

\* drafts.map((draft) => ({ ...draft, contentType: ... }))
PreparedMessage(draft) ==
  [to |-> draft.to, subject |-> draft.subject, body |-> draft.body,
   isHtml |-> draft.isHtml,
   contentType |-> IF draft.isHtml THEN "html" ELSE "text"]

PreparedMessages(ds) == [i \in 1..Len(ds) |-> PreparedMessage(ds[i])]

NoResult == [method |-> "none", success |-> 0, failed |-> 0, errors |-> <<>>]

\* variant: the early return always reports the desktop method
EmptyResultAsDesktop(method, tErrors) ==
  [method |-> "desktop", success |-> 0, failed |-> Len(tErrors), errors |-> tErrors]

\* lines 136-143
EmptyResult(method, tErrors) ==
  [method |-> method, success |-> 0, failed |-> Len(tErrors), errors |-> tErrors]

\* variant: the dispatcher's errors come first
GraphResultDispatchFirst(tErrors, gResult) ==
  [method |-> "graph", success |-> gResult.success,
   failed |-> gResult.failed + Len(tErrors),
   errors |-> gResult.errors \o tErrors]

\* lines 153-158
GraphResult(tErrors, gResult) ==
  [method |-> "graph", success |-> gResult.success,
   failed |-> gResult.failed + Len(tErrors),
   errors |-> tErrors \o gResult.errors]

\* variant: the requests rejected before dispatch are not counted
DesktopResultOfDraftsOnly(tErrors, ds, desktopResult) ==
  [method |-> "desktop", success |-> desktopResult.opened,
   failed |-> Len(ds) - desktopResult.opened,
   errors |-> tErrors \o desktopResult.errors]

\* lines 161-169
DesktopResult(tErrors, ds, desktopResult) ==
  [method |-> "desktop", success |-> desktopResult.opened,
   failed |-> Len(tErrors) + (Len(ds) - desktopResult.opened),
   errors |-> tErrors \o desktopResult.errors]

ConfigurationError ==
  <<"Email settings are not configured. Save the email delivery section in Settings first.">>

\* ------------------------------------------------------------------------
\* SettingsPage.tsx: validateEmailSettings, and the required settings of
\* the Graph dispatcher
\* ------------------------------------------------------------------------

\* !value?.trim()
BlankValue(value) == Trim(OrEmpty(value)) = <<>>

\* variant: the sender address is not checked
validateEmailSettingsWithoutSender(form) ==
  IF BlankValue(form.pinTemplate.subject) \/ BlankValue(form.pinTemplate.body)
  THEN <<"Provide both a subject and body for the PIN template.">>
  ELSE IF BlankValue(form.otpTemplate.subject) \/ BlankValue(form.otpTemplate.body)
  THEN <<"Provide both a subject and body for the OTP template.">>
  ELSE IF /\ form.method = "graph"
          /\ \/ BlankValue(form.graphTenantId)
             \/ BlankValue(form.graphClientId)
             \/ BlankValue(form.graphClientSecret)
  THEN <<"Graph mail delivery requires tenant ID, client ID, and client secret.">>
  ELSE <<>>

\* the problem to show, or <<>> for undefined
validateEmailSettings(form) ==
  IF BlankValue(form.pinTemplate.subject) \/ BlankValue(form.pinTemplate.body)
  THEN <<"Provide both a subject and body for the PIN template.">>
  ELSE IF BlankValue(form.otpTemplate.subject) \/ BlankValue(form.otpTemplate.body)
  THEN <<"Provide both a subject and body for the OTP template.">>
  ELSE IF /\ form.method = "graph"
          /\ \/ BlankValue(form.graphTenantId)
             \/ BlankValue(form.graphClientId)
             \/ BlankValue(form.graphClientSecret)
  THEN <<"Graph mail delivery requires tenant ID, client ID, and client secret.">>
  ELSE IF form.method = "graph" /\ BlankValue(form.graphSenderAddress)
  THEN <<"Graph mail delivery requires a sender address.">>
  ELSE <<>>

\* the Graph dispatcher requires the four settings of the loaded settings
MissingGraphSettingIn(loaded) ==
  \/ loaded.graphTenantId.tag # "str"
  \/ loaded.graphClientId.tag # "str"
  \/ loaded.graphClientSecret.tag # "str"
  \/ loaded.graphSenderAddress.tag # "str"

\* ------------------------------------------------------------------------
\* One call of sendCredentialEmails: inputs
\* ------------------------------------------------------------------------

MaxRequests == 3

User(userName, email, fullName, shortId, otp) ==
  [userName |-> userName, email |-> email, fullName |-> fullName,
   shortId |-> shortId, otp |-> otp]

Request(user, pinOverride, otpOverride) ==
  [user |-> user, pinOverride |-> pinOverride, otpOverride |-> otpOverride]

Ann == User(<<"ann">>, Str(<<"ann", "@", "x">>), Str(<<"Ann">>), Str(<<"1234">>), Undefined)

Bob == User(<<"bob">>, Undefined, Undefined, Str(<<"1234">>), Str(<<"9Z">>))

Cy == User(<<"cy">>, Str(<<" ">>), Undefined, Undefined, Undefined)

Dee == User(<<"dee">>, Str(<<" ", "dee", "@", "x", " ">>),
            Str(<<"{", "{", "pin", "}", "}">>), Undefined, Undefined)

Eve == User(<<"eve">>, Str(<<"eve", "@", "x">>), Str(<<LoneSurrogate>>),
            Str(<<"1234">>), Str(<<"9Z">>))

Fay == User(<<"fay">>, Str(<<"fay", "@", "x">>), Undefined, Str(<<"1234">>), Str(<<"9Z">>))

RequestKinds ==
  {Request(Ann, Undefined, Undefined),
   Request(Bob, Str(<<"77">>), Undefined),
   Request(Cy, Null, Null),
   Request(Dee, Str(<<"77">>), Null),
   Request(Eve, Str(<<>>), Undefined),
   Request(Fay, Undefined, Str(<<"55">>))}

RequestLists == SeqsUpTo(RequestKinds, MaxRequests)

CredentialTypes == {"pin", "otp"}

StoredEmailSettings(method, tenant, pinTemplate, otpTemplate) ==
  [present |-> TRUE, method |-> method,
   graphTenantId |-> tenant, graphClientId |-> Str(<<"client">>),
   graphClientSecret |-> Str(<<"secret">>),
   graphSenderAddress |-> Str(<<"sender", "@", "x">>),
   pinTemplate |-> pinTemplate, otpTemplate |-> otpTemplate]

NoStoredEmailSettings ==
  [present |-> FALSE, method |-> "",
   graphTenantId |-> Undefined, graphClientId |-> Undefined,
   graphClientSecret |-> Undefined, graphSenderAddress |-> Undefined,
   pinTemplate |-> NoStoredTemplate, otpTemplate |-> NoStoredTemplate]

Stored(emailSettings) == [present |-> TRUE, emailSettings |-> emailSettings]

NothingStored == [present |-> FALSE, emailSettings |-> NoStoredEmailSettings]

PlainPinTemplate ==
  StoredTemplate(
    Str(<<"Your", " ", "PIN">>),
    Str(<<"Hello", " ", "{", "{", "fullName", " ", "|", "|", " ", "userName",
          "}", "}", "\n", "PIN", " ", "{", "{", "pin", "}", "}", "\n">>))

PlainOtpTemplate ==
  StoredTemplate(
    Str(<<"Your", " ", "OTP">>),
    Str(<<"Hello", " ", "{", "{", "userName", "}", "}", "\n",
          "OTP", " ", "{", "{", "otp", "}", "}">>))

\* the subject renders empty for a user without a full name
NameOnlyPinTemplate ==
  StoredTemplate(Str(<<"{", "{", "fullName", "}", "}">>),
                 Str(<<"<", "P", ">", "{", "{", "pin", "}", "}", "<", "/", "P", ">">>))

\* a blank subject and a missing body: replaced by the defaults on load
BlankOtpTemplate == StoredTemplate(Str(<<" ">>), Undefined)

HtmlOtpTemplate ==
  StoredTemplate(Str(<<"OTP">>),
                 Str(<<"<", "p", ">", "{", "{", "otp", "}", "}", "&", "amp", ";",
                       "<", "br", "/", ">", "{", "{", "fullName", "}", "}">>))

\* the body is markup around the full name only
TagOnlyOtpTemplate ==
  StoredTemplate(Str(<<"OTP">>),
                 Str(<<"<", "p", ">", "{", "{", "fullName", "}", "}", "<", "/", "p", ">">>))

StoredSettings ==
  {NothingStored,
   Stored(NoStoredEmailSettings),
   Stored(StoredEmailSettings("desktop", Undefined, PlainPinTemplate, PlainOtpTemplate)),
   Stored(StoredEmailSettings("desktop", Undefined, NameOnlyPinTemplate, BlankOtpTemplate)),
   Stored(StoredEmailSettings("desktop", Undefined, PlainPinTemplate, TagOnlyOtpTemplate)),
   Stored(StoredEmailSettings("graph", Str(<<"tenant">>), PlainPinTemplate, HtmlOtpTemplate)),
   Stored(StoredEmailSettings("graph", Str(<<" ">>), NameOnlyPinTemplate, PlainOtpTemplate))}

\* how an open can fail: window.open returns null outside Tauri; inside
\* Tauri the opener rejects with an Error or with another value
OpenFailures ==
  IF isTauri
  THEN {[isError |-> TRUE, message |-> <<"Failed to load the opener plugin">>],
        [isError |-> FALSE, message |-> <<"not allowed">>]}
  ELSE {[isError |-> TRUE, message |-> <<"Mail draft was blocked by the browser">>]}

\* error instanceof Error ? error.message : "Unable to open mail client"
OpenErrorMessage(failure) ==
  IF failure.isError THEN failure.message ELSE <<"Unable to open mail client">>

\* ------------------------------------------------------------------------
\* One call of sendCredentialEmails: actions
\* ------------------------------------------------------------------------

settings == loadSettings(store)

emailSettings == settings.emailSettings

template == TemplateFor(emailSettings, type)

outcomes == Outcomes(requests, type, template)

CallInit ==
  /\ store \in StoredSettings
  /\ isTauri \in BOOLEAN
  /\ requests = <<>>
  /\ type = "pin"
  /\ pc = "idle"
  /\ renders = 0
  /\ templateErrors = <<>>
  /\ drafts = <<>>
  /\ index = 0
  /\ opened = 0
  /\ errors = <<>>
  /\ attempts = <<>>
  /\ graphCalls = <<>>
  /\ graphSent = 0
  /\ graphSuccess = 0
  /\ result = NoResult
  /\ thrown = <<>>

\* the caller invokes sendCredentialEmails(requests, type)
Call ==
  /\ pc = "idle"
  /\ requests' \in RequestLists
  /\ type' \in CredentialTypes
  /\ pc' = "loadSettings"
  /\ UNCHANGED <<store, isTauri, renders, templateErrors, drafts, index, opened,
                 errors, attempts, graphCalls, graphSent, graphSuccess, result,
                 thrown>>

\* lines 104-107: no settings, or settings without emailSettings
ThrowNotConfigured ==
  /\ pc = "loadSettings"
  /\ settings.isNull \/ ~settings.hasEmailSettings
  /\ thrown' = ConfigurationError
  /\ pc' = "rejected"
  /\ UNCHANGED <<store, isTauri, requests, type, renders, templateErrors, drafts,
                 index, opened, errors, attempts, graphCalls, graphSent,
                 graphSuccess, result>>

Configured == ~(settings.isNull \/ ~settings.hasEmailSettings)

\* lines 109-143: every request fails before dispatch
ReturnWithoutDrafts ==
  /\ pc = "loadSettings"
  /\ Configured
  /\ LET o == outcomes
         failures == ErrorsOf(o)
     IN /\ DraftsOf(o) = <<>>
        /\ templateErrors' = failures
        /\ result' = EmptyResult(emailSettings.method, failures)
  /\ renders' = RenderCalls(requests, type)
  /\ drafts' = <<>>
  /\ pc' = "returned"
  /\ UNCHANGED <<store, isTauri, requests, type, index, opened, errors, attempts,
                 graphCalls, graphSent, graphSuccess, thrown>>

\* lines 109-151: drafts exist and the method is graph
InvokeGraph ==
  /\ pc = "loadSettings"
  /\ Configured
  /\ emailSettings.method = "graph"
  /\ LET o == outcomes
         prepared == DraftsOf(o)
     IN /\ prepared # <<>>
        /\ templateErrors' = ErrorsOf(o)
        /\ drafts' = prepared
        /\ graphCalls' = Append(graphCalls, PreparedMessages(prepared))
  /\ renders' = RenderCalls(requests, type)
  /\ pc' = "graph"
  /\ UNCHANGED <<store, isTauri, requests, type, index, opened, errors, attempts,
                 graphSent, graphSuccess, result, thrown>>

\* lines 109-161 and 225-229: drafts exist and the method is desktop
StartDesktop ==
  /\ pc = "loadSettings"
  /\ Configured
  /\ emailSettings.method # "graph"
  /\ LET o == outcomes
         prepared == DraftsOf(o)
     IN /\ prepared # <<>>
        /\ templateErrors' = ErrorsOf(o)
        /\ drafts' = prepared
  /\ renders' = RenderCalls(requests, type)
  /\ index' = 0
  /\ opened' = 0
  /\ errors' = <<>>
  /\ pc' = "desktop"
  /\ UNCHANGED <<store, isTauri, requests, type, attempts, graphCalls, graphSent,
                 graphSuccess, result, thrown>>

\* the bodies a call can render from the stored settings and the requests
RenderedBodies ==
  {RequestOutcome(r, t, TemplateFor(loadSettings(st).emailSettings, t)).draft.body :
     r \in RequestKinds, t \in CredentialTypes, st \in StoredSettings}

\* stripHtml of each of them, evaluated once
StrippedBodies == [body \in RenderedBodies |-> stripHtml(body)]

\* stripHtml(body)
Stripped(body) ==
  IF body \in RenderedBodies THEN StrippedBodies[body] ELSE stripHtml(body)

\* openMailDrafts, lines 230-233, for the draft at index
draft == drafts[index + 1]

\* variant: the body is used as it is
plainBodyUnstripped == draft.body

plainBody == IF draft.isHtml THEN Stripped(draft.body) ELSE draft.body

InLoop == pc = "desktop" /\ index < Len(drafts)

\* encodeURIComponent throws outside the try block: openMailDrafts and
\* sendCredentialEmails reject
BuildUrlThrows ==
  /\ InLoop
  /\ ~(CanEncode(draft.subject) /\ CanEncode(plainBody))
  /\ thrown' = <<"URIError: URI malformed">>
  /\ pc' = "rejected"
  /\ UNCHANGED <<store, isTauri, requests, type, renders, templateErrors, drafts,
                 index, opened, errors, attempts, graphCalls, graphSent,
                 graphSuccess, result>>

\* lines 235-237: the open succeeds
OpenDraftSucceeds ==
  /\ InLoop
  /\ LET plain == plainBody
     IN /\ CanEncode(draft.subject) /\ CanEncode(plain)
        /\ attempts' = Append(attempts, buildMailtoUrl(draft.to, draft.subject, plain))
  /\ opened' = opened + 1
  /\ index' = index + 1
  /\ UNCHANGED <<store, isTauri, requests, type, pc, renders, templateErrors,
                 drafts, errors, graphCalls, graphSent, graphSuccess, result,
                 thrown>>

\* lines 235-240: the open fails and the catch block records it
OpenDraftFails ==
  /\ InLoop
  /\ LET plain == plainBody
     IN /\ CanEncode(draft.subject) /\ CanEncode(plain)
        /\ attempts' = Append(attempts, buildMailtoUrl(draft.to, draft.subject, plain))
  /\ \E failure \in OpenFailures :
       errors' = Append(errors, draft.to \o <<": ">> \o OpenErrorMessage(failure))
  /\ index' = index + 1
  /\ UNCHANGED <<store, isTauri, requests, type, pc, renders, templateErrors,
                 drafts, opened, graphCalls, graphSent, graphSuccess, result,
                 thrown>>

\* line 243, then lines 161-169
ReturnDesktop ==
  /\ pc = "desktop"
  /\ index = Len(drafts)
  /\ result' = DesktopResult(templateErrors, drafts,
                             [opened |-> opened, errors |-> errors])
  /\ pc' = "returned"
  /\ UNCHANGED <<store, isTauri, requests, type, renders, templateErrors, drafts,
                 index, opened, errors, attempts, graphCalls, graphSent,
                 graphSuccess, thrown>>

\* ------------------------------------------------------------------------
\* The Graph dispatcher behind sendGraphEmails (the send_graph_emails
\* command): the required Graph settings are enforced, then the messages
\* are sent one at a time in input order; a failed send is recorded and the
\* next message is sent.
\* ------------------------------------------------------------------------

messages == graphCalls[Len(graphCalls)]

MissingGraphSetting == MissingGraphSettingIn(emailSettings)

GraphSendErrors == {<<"Graph returned 403">>}

GraphRejectsSettings ==
  /\ pc = "graph"
  /\ MissingGraphSetting
  /\ thrown' = <<"Missing the required setting: graphTenantId">>
  /\ pc' = "rejected"
  /\ UNCHANGED <<store, isTauri, requests, type, renders, templateErrors, drafts,
                 index, opened, errors, attempts, graphCalls, graphSent,
                 graphSuccess, result>>

GraphSendSucceeds ==
  /\ pc = "graph"
  /\ ~MissingGraphSetting
  /\ graphSent < Len(messages)
  /\ graphSent' = graphSent + 1
  /\ graphSuccess' = graphSuccess + 1
  /\ UNCHANGED <<store, isTauri, requests, type, pc, renders, templateErrors,
                 drafts, index, opened, errors, attempts, graphCalls, result,
                 thrown>>

GraphSendFails ==
  /\ pc = "graph"
  /\ ~MissingGraphSetting
  /\ graphSent < Len(messages)
  /\ graphSent' = graphSent + 1
  /\ \E e \in GraphSendErrors :
       errors' = Append(errors, messages[graphSent + 1].to \o <<": ">> \o e)
  /\ UNCHANGED <<store, isTauri, requests, type, pc, renders, templateErrors,
                 drafts, index, opened, attempts, graphCalls, graphSuccess,
                 result, thrown>>

\* the dispatcher's { success, failed, errors }
graphResult ==
  [success |-> graphSuccess, failed |-> graphSent - graphSuccess, errors |-> errors]

\* emailDelivery.ts lines 153-158
ReturnGraph ==
  /\ pc = "graph"
  /\ ~MissingGraphSetting
  /\ graphSent = Len(messages)
  /\ result' = GraphResult(templateErrors, graphResult)
  /\ pc' = "returned"
  /\ UNCHANGED <<store, isTauri, requests, type, renders, templateErrors, drafts,
                 index, opened, errors, attempts, graphCalls, graphSent,
                 graphSuccess, thrown>>

\* ------------------------------------------------------------------------
\* createContext as a pure function
\* ------------------------------------------------------------------------

OptionalStrings == {Undefined, Null, Str(<<>>), Str(<<"77">>)}

ContextRequests ==
  {Request(User(<<"ann">>, e, f, s, o), po, oo) :
     e \in {Undefined, Str(<<" ">>), Str(<<"ann", "@", "x">>)},
     f \in {Undefined, Str(<<"Ann">>)},
     s \in {Undefined, Str(<<"1234">>)},
     o \in {Undefined, Str(<<"9Z">>)},
     po \in OptionalStrings,
     oo \in OptionalStrings}

ContextInit ==
  /\ cRequest \in ContextRequests
  /\ cType \in CredentialTypes
  /\ cResult = [ok |-> FALSE, error |-> <<>>, tokens |-> NoTokens]
  /\ cPc = "input"

CreateContext ==
  /\ cPc = "input"
  /\ cResult' = createContext(cRequest, cType)
  /\ cPc' = "created"
  /\ UNCHANGED <<cRequest, cType>>

\* ------------------------------------------------------------------------
\* Rendering as a pure function: templates and contexts drawn from bounded
\* sets, one action applying renderTemplate.
\* ------------------------------------------------------------------------

MaxRawLen == 6

MaxCandidates == 2

MaxTokens == 2

RawAtoms == {"{", "}", "|", " ", "pin"}

\* every string of at most MaxRawLen symbols
RawTemplates == SeqsUpTo(RawAtoms, MaxRawLen)

CandidateKeys == {"fullName", "pin", "constructor", "nokey"}

CandidateLists == SeqsUpTo(CandidateKeys, MaxCandidates) \ {<<>>}

\* "{{a||b}}", or "{{ a || b }}" when padded
RECURSIVE JoinOr(_, _)
JoinOr(cands, padded) ==
  IF Len(cands) = 1 THEN <<cands[1]>>
  ELSE <<cands[1]>> \o (IF padded THEN <<" ", "|", "|", " ">> ELSE <<"|", "|">>)
         \o JoinOr(Tail(cands), padded)

MkToken(cands, padded) ==
  <<"{", "{">> \o (IF padded THEN <<" ">> ELSE <<>>) \o JoinOr(cands, padded)
    \o (IF padded THEN <<" ">> ELSE <<>>) \o <<"}", "}">>

\* one token: every candidate list, padded or not
SingleTokens == {MkToken(c, p) : c \in CandidateLists, p \in BOOLEAN}

\* the pieces of a template with several tokens
TokenItems ==
  {MkToken(<<k>>, FALSE) : k \in CandidateKeys}
    \cup {MkToken(<<"fullName", "pin">>, TRUE), <<"Hello">>}

\* templates of well-formed tokens and literal text
TokenTemplates ==
  SingleTokens \cup {Flatten(items) : items \in SeqsUpTo(TokenItems, MaxTokens)}

Templates == RawTemplates \cup TokenTemplates

TokenText == <<"{", "{", "pin", "}", "}">>

RenderContexts ==
  {[userName |-> <<"alice">>, fullName |-> f, email |-> <<"a@x">>,
    pin |-> p, otp |-> <<>>] :
     f \in {<<>>, <<"Ann">>, TokenText}, p \in {<<>>, <<"1234">>}}

RenderInit ==
  /\ rTemplate \in Templates
  /\ rTokens \in RenderContexts
  /\ rOutput = <<>>
  /\ rPc = "input"

Render ==
  /\ rPc = "input"
  /\ rOutput' = RenderTemplate(rTemplate, rTokens)
  /\ rPc' = "rendered"
  /\ UNCHANGED <<rTemplate, rTokens>>

\* ------------------------------------------------------------------------
\* buildMailtoUrl as a pure function: subjects and bodies drawn from
\* bounded sets, one action per outcome.
\* ------------------------------------------------------------------------

MaxMailLen == 3

MailAtoms == {"line", " ", "\n", "\r", "%", LoneSurrogate}

MailBodies == SeqsUpTo(MailAtoms, MaxMailLen)

MailSubjects ==
  {<<>>, <<"Hi", " ", "there">>, <<"50", "%", " ", "&", " ", "more">>,
   <<LoneSurrogate>>}

MailRecipient == <<"a", "@", "b.com">>

MailtoInit ==
  /\ mSubject \in MailSubjects
  /\ mBody \in MailBodies
  /\ mUrl = <<>>
  /\ mPc = "input"

\* lines 264-267
BuildMailto ==
  /\ mPc = "input"
  /\ CanEncode(mSubject) /\ CanEncode(mBody)
  /\ mUrl' = buildMailtoUrl(MailRecipient, mSubject, mBody)
  /\ mPc' = "built"
  /\ UNCHANGED <<mSubject, mBody>>

\* lines 264 and 266: encodeURIComponent throws URIError
BuildMailtoThrows ==
  /\ mPc = "input"
  /\ ~(CanEncode(mSubject) /\ CanEncode(mBody))
  /\ mPc' = "threw"
  /\ UNCHANGED <<mSubject, mBody, mUrl>>

\* ------------------------------------------------------------------------
\* isHtmlContent as a pure function
\* ------------------------------------------------------------------------

MaxHtmlLen == 4

HtmlAtoms == {"<", ">", "/", "P", "H3", "em", "Td", "Hello", "{"}

HtmlInit ==
  /\ hText \in SeqsUpTo(HtmlAtoms, MaxHtmlLen)
  /\ hResult = FALSE
  /\ hPc = "input"

Classify ==
  /\ hPc = "input"
  /\ hResult' = isHtmlContent(hText)
  /\ hPc' = "classified"
  /\ UNCHANGED hText

\* ------------------------------------------------------------------------
\* validateEmailSettings as a pure function, followed by what a Graph
\* delivery does with the same settings once they are loaded
\* ------------------------------------------------------------------------

GraphFieldValues == {Undefined, Str(<<" ">>), Str(<<"id">>)}

ValidateInputs ==
  {[present |-> TRUE, method |-> m,
    graphTenantId |-> t, graphClientId |-> c, graphClientSecret |-> k,
    graphSenderAddress |-> a, pinTemplate |-> p, otpTemplate |-> o] :
     m \in {"desktop", "graph"},
     t \in GraphFieldValues, c \in GraphFieldValues,
     k \in GraphFieldValues, a \in GraphFieldValues,
     p \in {PlainPinTemplate, StoredTemplate(Str(<<" ">>), Str(<<"PIN">>))},
     o \in {PlainOtpTemplate, StoredTemplate(Str(<<"OTP">>), Str(<<>>))}}

ValidateInit ==
  /\ vSettings \in ValidateInputs
  /\ vProblem = <<>>
  /\ vSend = "none"
  /\ vPc = "input"

\* SettingsPage.tsx line 510
ValidateForm ==
  /\ vPc = "input"
  /\ vProblem' = validateEmailSettings(vSettings)
  /\ vPc' = "validated"
  /\ UNCHANGED <<vSettings, vSend>>

\* a Graph delivery with these settings in the store: they are loaded, and
\* the dispatcher sends only when none of the four settings is missing
DispatchWithSettings ==
  /\ vPc = "validated"
  /\ LET loaded == normalizeEmailSettings(vSettings)
     IN vSend' = IF loaded.method # "graph" THEN "none"
                 ELSE IF MissingGraphSettingIn(loaded) THEN "rejected"
                 ELSE "sent"
  /\ vPc' = "dispatched"
  /\ UNCHANGED <<vSettings, vProblem>>

\* ------------------------------------------------------------------------
\* The Graph dispatcher of one batch, one HTTP exchange per step: the token
\* provider (Empty -> Cached -> Empty on expiry or invalidation) and the
\* sends of the messages, one at a time in input order.
\* ------------------------------------------------------------------------

MaxBatch == 3

\* a PreparedEmailMessage for the i-th recipient
BatchMessage(i) ==
  [to |-> <<"user", ToString(i), "@", "x">>, subject |-> <<"Your", " ", "PIN">>,
   body |-> <<"PIN", " ", "1234">>, isHtml |-> FALSE]

Batches == {[i \in 1..n |-> BatchMessage(i)] : n \in 1..MaxBatch}

TokenEndpointError == <<"Microsoft Graph token endpoint returned 401">>

SendUnauthorizedError == <<"Graph returned 401">>

SendForbiddenError == <<"Graph returned 403">>

\* variant: a granted token is not kept
AfterGrantUncached(token) == token

\* on success the token is cached
AfterGrant(token) == "Cached"

\* variant: the rejected token stays in the cache
InvalidateKeeps(token) == token

\* explicit invalidation after an unauthorized dispatch response
Invalidate(token) == "Empty"

\* variant: a failure ends the batch
AbortAfterFailure(sent, total) == total

\* a failure on one message does not abort the batch: the next message
AfterFailure(sent, total) == sent + 1

DispatchInit ==
  /\ gMessages \in Batches
  /\ gToken \in {"Empty", "Cached"}
  /\ gPhase = "token"
  /\ gSent = 0
  /\ gSuccess = 0
  /\ gErrors = <<>>
  /\ gLog = <<>>
  /\ gBatchResult = [success |-> 0, failed |-> 0, errors |-> <<>>]
  /\ gPc = "dispatch"

gMessage == gMessages[gSent + 1]

Dispatching == gPc = "dispatch" /\ gSent < Len(gMessages)

Logged(e) == Append(gLog, [k |-> gSent + 1, e |-> e])

\* getToken: a valid token is in the cache
TokenCacheHit ==
  /\ Dispatching
  /\ gPhase = "token"
  /\ gToken = "Cached"
  /\ gPhase' = "send"
  /\ gLog' = Logged("cache hit")
  /\ UNCHANGED <<gMessages, gToken, gSent, gSuccess, gErrors, gBatchResult, gPc>>

\* getToken: the cached token has reached its expiry
TokenExpires ==
  /\ Dispatching
  /\ gPhase = "token"
  /\ gToken = "Cached"
  /\ gToken' = "Empty"
  /\ gLog' = Logged("token expired")
  /\ UNCHANGED <<gMessages, gPhase, gSent, gSuccess, gErrors, gBatchResult, gPc>>

\* getToken: the token endpoint answers 2xx
TokenGranted ==
  /\ Dispatching
  /\ gPhase \in {"token", "refresh"}
  /\ gToken = "Empty"
  /\ gToken' = AfterGrant(gToken)
  /\ gPhase' = IF gPhase = "token" THEN "send" ELSE "retry"
  /\ gLog' = Logged("token granted")
  /\ UNCHANGED <<gMessages, gSent, gSuccess, gErrors, gBatchResult, gPc>>

\* getToken: the token endpoint answers non-2xx; nothing is cached and the
\* message is recorded as failed
TokenRefused ==
  /\ Dispatching
  /\ gPhase \in {"token", "refresh"}
  /\ gToken = "Empty"
  /\ gErrors' = Append(gErrors, gMessage.to \o <<": ">> \o TokenEndpointError)
  /\ gSent' = AfterFailure(gSent, Len(gMessages))
  /\ gPhase' = "token"
  /\ gLog' = Logged("token refused")
  /\ UNCHANGED <<gMessages, gToken, gSuccess, gBatchResult, gPc>>

\* send: 2xx
SendAccepted ==
  /\ Dispatching
  /\ gPhase \in {"send", "retry"}
  /\ gSuccess' = gSuccess + 1
  /\ gSent' = gSent + 1
  /\ gPhase' = "token"
  /\ gLog' = Logged("send 200")
  /\ UNCHANGED <<gMessages, gToken, gErrors, gBatchResult, gPc>>

\* send: 403 is not retried
SendForbidden ==
  /\ Dispatching
  /\ gPhase \in {"send", "retry"}
  /\ gErrors' = Append(gErrors, gMessage.to \o <<": ">> \o SendForbiddenError)
  /\ gSent' = AfterFailure(gSent, Len(gMessages))
  /\ gPhase' = "token"
  /\ gLog' = Logged("send 403")
  /\ UNCHANGED <<gMessages, gToken, gSuccess, gBatchResult, gPc>>

\* send: 401 triggers one token refresh and a single retry
SendUnauthorized ==
  /\ Dispatching
  /\ gPhase = "send"
  /\ gToken' = Invalidate(gToken)
  /\ gPhase' = "refresh"
  /\ gLog' = Logged("send 401")
  /\ UNCHANGED <<gMessages, gSent, gSuccess, gErrors, gBatchResult, gPc>>

\* the retry: 401 again, the dispatcher gives up on the message
RetryUnauthorized ==
  /\ Dispatching
  /\ gPhase = "retry"
  /\ gToken' = Invalidate(gToken)
  /\ gErrors' = Append(gErrors, gMessage.to \o <<": ">> \o SendUnauthorizedError)
  /\ gSent' = AfterFailure(gSent, Len(gMessages))
  /\ gPhase' = "token"
  /\ gLog' = Logged("send 401")
  /\ UNCHANGED <<gMessages, gSuccess, gBatchResult, gPc>>

\* the batch result { success, failed, errors }
ReturnBatch ==
  /\ gPc = "dispatch"
  /\ gSent = Len(gMessages)
  /\ gBatchResult' = [success |-> gSuccess, failed |-> gSent - gSuccess,
                 errors |-> gErrors]
  /\ gPc' = "returned"
  /\ UNCHANGED <<gMessages, gToken, gPhase, gSent, gSuccess, gErrors, gLog>>

\* ------------------------------------------------------------------------
\* stripHtml as a pure function
\* ------------------------------------------------------------------------

MaxStripItems == 3

\* pieces of markup and text an input is put together from
StripItems ==
  {<<"<", "/", "p", ">">>, <<"<", "em", ">">>, <<"Hi">>, <<" ">>, <<"\n">>,
   <<"\r">>, <<"\t">>, <<"&", "amp", ";">>, <<"&", "lt", ";">>, <<"lt", ";">>,
   <<"p", ">">>}

\* "<p>Hi</p><br>there"
BreakExample ==
  <<"<", "p", ">", "Hi", "<", "/", "p", ">", "<", "br", ">", "there">>

\* two paragraphs on lines that end in CR LF
CrLfExample ==
  <<"<", "p", ">", "Hi", "<", "/", "p", ">", "\r", "\n",
    "<", "p", ">", "there", "<", "/", "p", ">">>

StripInputs ==
  {Flatten(items) : items \in SeqsUpTo(StripItems, MaxStripItems)}
    \cup {BreakExample, CrLfExample}

StripInit ==
  /\ sHtml \in StripInputs
  /\ sText = <<>>
  /\ sAgain = <<>>
  /\ sPc = "input"

\* text = stripHtml(html)
StripHtml ==
  /\ sPc = "input"
  /\ sText' = stripHtml(sHtml)
  /\ sPc' = "stripped"
  /\ UNCHANGED <<sHtml, sAgain>>

\* stripHtml applied to its own output
StripAgain ==
  /\ sPc = "stripped"
  /\ sAgain' = stripHtml(sText)
  /\ sPc' = "again"
  /\ UNCHANGED <<sHtml, sText>>

\* ------------------------------------------------------------------------
\* openMailDrafts and openMailtoUrl: the opens and their timers
\*
\* A draft is reduced to whether encodeURIComponent accepts its subject and
\* body.  The clock advances when a timer fires; a timer fires at its delay
\* or later.
\* ------------------------------------------------------------------------

MaxDrafts == 3

\* line 236: index * 150
StaggerMs == 150

\* how late a timer may fire, in milliseconds
TimerLateness == {0, 1}

\* variant: no delay before any open
NoDelay(draftIndex) == 0

\* line 236: the delayMs argument of openMailtoUrl
DelayFor(draftIndex) == draftIndex * StaggerMs

OpenInit ==
  /\ oDrafts \in SeqsUpTo(BOOLEAN, MaxDrafts) \ {<<>>}
  /\ oIndex = 0
  /\ oPhase = "loop"
  /\ oClock = 0
  /\ oOpened = 0
  /\ oErrors = 0
  /\ oLog = <<>>
  /\ oPc = "running"

\* the loop is about to handle drafts[oIndex]
AtDraft == oPc = "running" /\ oPhase = "loop" /\ oIndex < Len(oDrafts)

OpenEvent(event, ms) ==
  [draft |-> oIndex, event |-> event, at |-> oClock, ms |-> ms]

\* lines 232-233: buildMailtoUrl throws outside the try block
UrlThrows ==
  /\ AtDraft
  /\ ~oDrafts[oIndex + 1]
  /\ oPc' = "rejected"
  /\ UNCHANGED <<oDrafts, oIndex, oPhase, oClock, oOpened, oErrors, oLog>>

\* lines 236 and 247-249: delayMs > 0, a timer is set and awaited
SetTimer ==
  /\ AtDraft
  /\ oDrafts[oIndex + 1]
  /\ DelayFor(oIndex) > 0
  /\ oLog' = Append(oLog, OpenEvent("timer", DelayFor(oIndex)))
  /\ oPhase' = "timer"
  /\ UNCHANGED <<oDrafts, oIndex, oClock, oOpened, oErrors, oPc>>

\* lines 236 and 247: delayMs is 0, no timer
SkipTimer ==
  /\ AtDraft
  /\ oDrafts[oIndex + 1]
  /\ ~(DelayFor(oIndex) > 0)
  /\ oPhase' = "ready"
  /\ UNCHANGED <<oDrafts, oIndex, oClock, oOpened, oErrors, oLog, oPc>>

\* line 248: the timer resolves the awaited promise
TimerFires ==
  /\ oPc = "running"
  /\ oPhase = "timer"
  /\ \E late \in TimerLateness : oClock' = oClock + DelayFor(oIndex) + late
  /\ oPhase' = "ready"
  /\ UNCHANGED <<oDrafts, oIndex, oOpened, oErrors, oLog, oPc>>

\* lines 251-257: the opener or window.open is called
StartOpen ==
  /\ oPc = "running"
  /\ oPhase = "ready"
  /\ oLog' = Append(oLog, OpenEvent("start", 0))
  /\ oPhase' = "opening"
  /\ UNCHANGED <<oDrafts, oIndex, oClock, oOpened, oErrors, oPc>>

\* lines 236-237: the open completed
OpenResolves ==
  /\ oPc = "running"
  /\ oPhase = "opening"
  /\ oLog' = Append(oLog, OpenEvent("end", 0))
  /\ oOpened' = oOpened + 1
  /\ oIndex' = oIndex + 1
  /\ oPhase' = "loop"
  /\ UNCHANGED <<oDrafts, oClock, oErrors, oPc>>

\* lines 238-240: the open failed
OpenRejects ==
  /\ oPc = "running"
  /\ oPhase = "opening"
  /\ oLog' = Append(oLog, OpenEvent("end", 0))
  /\ oErrors' = oErrors + 1
  /\ oIndex' = oIndex + 1
  /\ oPhase' = "loop"
  /\ UNCHANGED <<oDrafts, oClock, oOpened, oPc>>

\* line 243 and lines 161-169: the loop is over, the call returns
ReturnOpened ==
  /\ oPc = "running"
  /\ oPhase = "loop"
  /\ oIndex = Len(oDrafts)
  /\ oPc' = "returned"
  /\ UNCHANGED <<oDrafts, oIndex, oPhase, oClock, oOpened, oErrors, oLog>>

\* ------------------------------------------------------------------------
\* ResultsDialog.tsx: the send button, handleSendEmails and the reset effect
\*
\* The dialog stays mounted while it is closed (UsersPage.tsx 857-862); the
\* page opens it again with the results of the next credential generation.
\* A run of handleSendEmails is in progress from the click until its
\* finally block.
\* ------------------------------------------------------------------------

MaxRuns == 3

\* successCount of the results a page may hand to the dialog
SuccessCounts == {0, 2}

DialogInit ==
  /\ dialogOpen = TRUE
  /\ successCount \in SuccessCounts
  /\ sendingEmails = FALSE
  /\ emailResults = "null"
  /\ runs = <<>>

\* the page sets open to true with new results
OpenDialog ==
  /\ ~dialogOpen
  /\ dialogOpen' = TRUE
  /\ successCount' \in SuccessCounts
  /\ UNCHANGED <<sendingEmails, emailResults, runs>>

\* Close is clicked (lines 252-254, never disabled); the effect of lines
\* 55-61 runs because open became false
CloseDialog ==
  /\ dialogOpen
  /\ dialogOpen' = FALSE
  /\ emailResults' = "null"
  /\ sendingEmails' = FALSE
  /\ UNCHANGED <<successCount, runs>>

\* lines 239 and 63-66: the enabled send button is clicked
ClickSend ==
  /\ dialogOpen
  /\ ~(sendingEmails \/ successCount = 0)
  /\ Len(runs) < MaxRuns
  /\ sendingEmails' = TRUE
  /\ emailResults' = "null"
  /\ runs' = Append(runs, "sending")
  /\ UNCHANGED <<dialogOpen, successCount>>

\* lines 85-112 and 119-121: the awaited sends resolved
RunSucceeds ==
  \E k \in 1..Len(runs) :
    /\ runs[k] = "sending"
    /\ runs' = [runs EXCEPT ![k] = "finished"]
    /\ emailResults' = "sent"
    /\ sendingEmails' = FALSE
    /\ UNCHANGED <<dialogOpen, successCount>>

\* lines 113-121: an awaited send rejected
RunFails ==
  \E k \in 1..Len(runs) :
    /\ runs[k] = "sending"
    /\ runs' = [runs EXCEPT ![k] = "finished"]
    /\ emailResults' = "failed"
    /\ sendingEmails' = FALSE
    /\ UNCHANGED <<dialogOpen, successCount>>

\* lines 40-46: the message is dismissed after five seconds
DismissMessage ==
  /\ emailResults # "null"
  /\ emailResults' = "null"
  /\ UNCHANGED <<dialogOpen, successCount, sendingEmails, runs>>

\* ------------------------------------------------------------------------
\* settingsStore.ts: saveSettings and loadSettings on the whole document
\*
\* An optional number or boolean is [tag, s] like an optional string, with
\* the value as the only element of s.
\* ------------------------------------------------------------------------

Num(n) == [tag |-> "num", s |-> <<n>>]

Bool(b) == [tag |-> "bool", s |-> <<b>>]

\* lines 287-303: SafeQSettings
SafeQSettings(tenantUrl, apiKey, pinLength, otpRules, shortIdRules, email) ==
  [tenantUrl |-> tenantUrl, apiKey |-> apiKey, pinLength |-> pinLength,
   otpLength |-> otpRules.length,
   otpUseUppercase |-> otpRules.uppercase,
   otpUseLowercase |-> otpRules.lowercase,
   otpUseNumbers |-> otpRules.numbers,
   otpUseSpecial |-> otpRules.special,
   otpExcludeCharacters |-> otpRules.exclude,
   shortIdLength |-> shortIdRules.length,
   shortIdUseUppercase |-> shortIdRules.uppercase,
   shortIdUseLowercase |-> shortIdRules.lowercase,
   shortIdUseNumbers |-> shortIdRules.numbers,
   shortIdUseSpecial |-> shortIdRules.special,
   emailSettings |-> email]

Rules(length, uppercase, lowercase, numbers, special, exclude) ==
  [length |-> length, uppercase |-> uppercase, lowercase |-> lowercase,
   numbers |-> numbers, special |-> special, exclude |-> exclude]

NoRules ==
  Rules(Undefined, Undefined, Undefined, Undefined, Undefined, Undefined)

\* EmailSettings as the store holds them
StoredForm(email) ==
  [present |-> TRUE, method |-> email.method,
   graphTenantId |-> email.graphTenantId, graphClientId |-> email.graphClientId,
   graphClientSecret |-> email.graphClientSecret,
   graphSenderAddress |-> email.graphSenderAddress,
   pinTemplate |-> StoredTemplate(Str(email.pinTemplate.subject),
                                  Str(email.pinTemplate.body)),
   otpTemplate |-> StoredTemplate(Str(email.otpTemplate.subject),
                                  Str(email.otpTemplate.body))]

\* lines 535-551
sanitizeEmailSettings(form) ==
  [present |-> TRUE, method |-> form.method,
   graphTenantId |-> normalizeOptional(form.graphTenantId),
   graphClientId |-> normalizeOptional(form.graphClientId),
   graphClientSecret |-> normalizeOptional(form.graphClientSecret),
   graphSenderAddress |-> normalizeOptional(form.graphSenderAddress),
   pinTemplate |-> StoredTemplate(Str(Trim(form.pinTemplate.subject.s)),
                                  Str(Trim(form.pinTemplate.body.s))),
   otpTemplate |-> StoredTemplate(Str(Trim(form.otpTemplate.subject.s)),
                                  Str(Trim(form.otpTemplate.body.s)))]

\* a stored document is [present, doc]: the payload has the fields below
\* and no other
NoDocument ==
  [present |-> FALSE,
   doc |-> [tenantUrl |-> Undefined, apiKey |-> Undefined, pinLength |-> Undefined,
            shortIdLength |-> Undefined, shortIdUseUppercase |-> Undefined,
            shortIdUseLowercase |-> Undefined, shortIdUseNumbers |-> Undefined,
            shortIdUseSpecial |-> Undefined,
            emailSettings |-> NoStoredEmailSettings]]

\* lines 472-483: the payload saveSettings stores
saveSettings(toSave) ==
  [present |-> TRUE,
   doc |-> [tenantUrl |-> Str(Trim(toSave.tenantUrl.s)),
            apiKey |-> Str(Trim(toSave.apiKey.s)),
            pinLength |-> toSave.pinLength,
            shortIdLength |-> toSave.shortIdLength,
            shortIdUseUppercase |-> toSave.shortIdUseUppercase,
            shortIdUseLowercase |-> toSave.shortIdUseLowercase,
            shortIdUseNumbers |-> toSave.shortIdUseNumbers,
            shortIdUseSpecial |-> toSave.shortIdUseSpecial,
            emailSettings |-> IF toSave.emailSettings.present
                              THEN sanitizeEmailSettings(toSave.emailSettings)
                              ELSE StoredForm(getDefaultEmailSettings)]]

\* what loadSettings returns when nothing is stored
NullDocument ==
  [isNull |-> TRUE] @@
  SafeQSettings(Undefined, Undefined, Undefined, NoRules, NoRules,
                getDefaultEmailSettings)

\* lines 451-470: the object loadSettings returns; a field the object does
\* not have reads as undefined
LoadedDocument(raw) ==
  IF ~raw.present THEN NullDocument
  ELSE [isNull |-> FALSE] @@
       SafeQSettings(
         Str(Trim(OrEmpty(raw.doc.tenantUrl))),
         Str(Trim(OrEmpty(raw.doc.apiKey))),
         raw.doc.pinLength,
         NoRules,
         Rules(raw.doc.shortIdLength, raw.doc.shortIdUseUppercase,
               raw.doc.shortIdUseLowercase, raw.doc.shortIdUseNumbers,
               raw.doc.shortIdUseSpecial, Undefined),
         loadSettings(Stored(raw.doc.emailSettings)).emailSettings)

NoSettings ==
  SafeQSettings(Undefined, Undefined, Undefined, NoRules, NoRules,
                NoStoredEmailSettings)

\* documents an earlier version or another program left in the store
OlderDocuments ==
  {[present |-> TRUE,
    doc |-> [NoDocument.doc EXCEPT !.tenantUrl = url, !.emailSettings = email]] :
     url \in {Undefined, Str(<<" ", "https://x">>)},
     email \in {NoStoredEmailSettings,
                StoredEmailSettings("", Undefined, NoStoredTemplate, PlainOtpTemplate),
                StoredEmailSettings("graph", Undefined, BlankOtpTemplate, BlankOtpTemplate),
                StoredEmailSettings("desktop", Undefined, PlainPinTemplate,
                                    StoredTemplate(Str(<<"OTP">>), Str(<<"\n", " ">>)))}}

\* the e-mail section of the settings page when validateEmailSettings
\* accepts it, or no e-mail section
EmailForms ==
  {form \in ValidateInputs :
     /\ validateEmailSettings(form) = <<>>
     /\ form.graphClientId = form.graphClientSecret
     /\ form.graphClientId = form.graphSenderAddress}
    \cup {NoStoredEmailSettings}

\* the settings a caller may save
SettingsToSave ==
  {SafeQSettings(Str(url), Str(<<"key", " ">>), Num(pinLength),
                 Rules(Num(otpLength), Bool(TRUE), Bool(TRUE), Bool(TRUE),
                       Bool(special), Str(exclude)),
                 Rules(Num(6), Bool(TRUE), Bool(TRUE), Bool(TRUE), Bool(special),
                       Undefined),
                 email) :
     url \in {<<"https://x">>, <<" ", "https://x", " ">>},
     pinLength \in {4, 6},
     otpLength \in {8, 12},
     special \in BOOLEAN,
     exclude \in {<<>>, <<"1lI0Oo">>},
     email \in EmailForms}

StoreInit ==
  /\ kStore \in OlderDocuments \cup {NoDocument}
  /\ kSettings = NoSettings
  /\ kLoaded = NullDocument
  /\ kPc = "start"

\* lines 472-488: saveSettings(settings)
SaveSettings ==
  /\ kPc = "start"
  /\ \E toSave \in SettingsToSave :
       /\ kSettings' = toSave
       /\ kStore' = saveSettings(toSave)
  /\ kPc' = "saved"
  /\ UNCHANGED kLoaded

\* lines 451-470: loadSettings()
LoadSettings ==
  /\ kPc \in {"start", "saved"}
  /\ kLoaded' = LoadedDocument(kStore)
  /\ kPc' = "loaded"
  /\ UNCHANGED <<kStore, kSettings>>

\* ------------------------------------------------------------------------
\* Specifications
\* ------------------------------------------------------------------------

StripIdle ==
  /\ sHtml = <<>>
  /\ sText = <<>>
  /\ sAgain = <<>>
  /\ sPc = "off"

OpenIdle ==
  /\ oDrafts = <<>>
  /\ oIndex = 0
  /\ oPhase = "loop"
  /\ oClock = 0
  /\ oOpened = 0
  /\ oErrors = 0
  /\ oLog = <<>>
  /\ oPc = "off"

DialogIdle ==
  /\ dialogOpen = FALSE
  /\ successCount = 0
  /\ sendingEmails = FALSE
  /\ emailResults = "null"
  /\ runs = <<>>

StoreIdle ==
  /\ kStore = NoDocument
  /\ kSettings = NoSettings
  /\ kLoaded = NullDocument
  /\ kPc = "off"

AuxIdle == StripIdle /\ OpenIdle /\ DialogIdle /\ StoreIdle

RenderIdle ==
  /\ rTemplate = <<>>
  /\ rTokens = NoTokens
  /\ rOutput = <<>>
  /\ rPc = "off"

ContextIdle ==
  /\ cRequest = Request(Ann, Undefined, Undefined)
  /\ cType = "pin"
  /\ cResult = [ok |-> FALSE, error |-> <<>>, tokens |-> NoTokens]
  /\ cPc = "off"

CallIdle ==
  /\ store = NothingStored
  /\ isTauri = TRUE
  /\ CallInit

MailtoIdle ==
  /\ mSubject = <<>>
  /\ mBody = <<>>
  /\ mUrl = <<>>
  /\ mPc = "off"

HtmlIdle ==
  /\ hText = <<>>
  /\ hResult = FALSE
  /\ hPc = "off"

ValidateIdle ==
  /\ vSettings = NoStoredEmailSettings
  /\ vProblem = <<>>
  /\ vSend = "none"
  /\ vPc = "off"

DispatchIdle ==
  /\ gMessages = <<>>
  /\ gToken = "Empty"
  /\ gPhase = "token"
  /\ gSent = 0
  /\ gSuccess = 0
  /\ gErrors = <<>>
  /\ gLog = <<>>
  /\ gBatchResult = [success |-> 0, failed |-> 0, errors |-> <<>>]
  /\ gPc = "off"

BaseIdle ==
  RenderIdle /\ ContextIdle /\ MailtoIdle /\ HtmlIdle /\ ValidateIdle
    /\ DispatchIdle /\ CallIdle

Init ==
  CallInit /\ RenderIdle /\ ContextIdle /\ MailtoIdle /\ HtmlIdle /\ ValidateIdle
    /\ DispatchIdle /\ AuxIdle

Next ==
  \/ (Call /\ UNCHANGED pureVars)
  \/ (ThrowNotConfigured /\ UNCHANGED pureVars)
  \/ (ReturnWithoutDrafts /\ UNCHANGED pureVars)
  \/ (InvokeGraph /\ UNCHANGED pureVars)
  \/ (StartDesktop /\ UNCHANGED pureVars)
  \/ (BuildUrlThrows /\ UNCHANGED pureVars)
  \/ (OpenDraftSucceeds /\ UNCHANGED pureVars)
  \/ (OpenDraftFails /\ UNCHANGED pureVars)
  \/ (ReturnDesktop /\ UNCHANGED pureVars)
  \/ (GraphRejectsSettings /\ UNCHANGED pureVars)
  \/ (GraphSendSucceeds /\ UNCHANGED pureVars)
  \/ (GraphSendFails /\ UNCHANGED pureVars)
  \/ (ReturnGraph /\ UNCHANGED pureVars)

Spec == Init /\ [][Next]_vars

RenderNext ==
  Render /\ UNCHANGED <<contextVars, mailtoVars, htmlVars, validateVars, dispatchVars, callVars, auxVars>>

RenderSpecInit ==
  RenderInit /\ ContextIdle /\ MailtoIdle /\ HtmlIdle /\ ValidateIdle /\ DispatchIdle /\ CallIdle
    /\ AuxIdle

SpecRender == RenderSpecInit /\ [][RenderNext]_vars

ContextNext ==
  CreateContext /\ UNCHANGED <<renderVars, mailtoVars, htmlVars, validateVars, dispatchVars, callVars, auxVars>>

ContextSpecInit ==
  ContextInit /\ RenderIdle /\ MailtoIdle /\ HtmlIdle /\ ValidateIdle /\ DispatchIdle /\ CallIdle
    /\ AuxIdle

SpecContext == ContextSpecInit /\ [][ContextNext]_vars

MailtoNext ==
  \/ (BuildMailto
        /\ UNCHANGED <<renderVars, contextVars, htmlVars, validateVars, dispatchVars, callVars, auxVars>>)
  \/ (BuildMailtoThrows
        /\ UNCHANGED <<renderVars, contextVars, htmlVars, validateVars, dispatchVars, callVars, auxVars>>)

MailtoSpecInit ==
  MailtoInit /\ RenderIdle /\ ContextIdle /\ HtmlIdle /\ ValidateIdle /\ DispatchIdle /\ CallIdle
    /\ AuxIdle

SpecMailto == MailtoSpecInit /\ [][MailtoNext]_vars

HtmlNext ==
  Classify /\ UNCHANGED <<renderVars, contextVars, mailtoVars, validateVars, dispatchVars, callVars, auxVars>>

HtmlSpecInit ==
  HtmlInit /\ RenderIdle /\ ContextIdle /\ MailtoIdle /\ ValidateIdle /\ DispatchIdle /\ CallIdle
    /\ AuxIdle

SpecHtml == HtmlSpecInit /\ [][HtmlNext]_vars

ValidateNext ==
  \/ (ValidateForm
        /\ UNCHANGED <<renderVars, contextVars, mailtoVars, htmlVars, dispatchVars, callVars, auxVars>>)
  \/ (DispatchWithSettings
        /\ UNCHANGED <<renderVars, contextVars, mailtoVars, htmlVars, dispatchVars, callVars, auxVars>>)

ValidateSpecInit ==
  ValidateInit /\ RenderIdle /\ ContextIdle /\ MailtoIdle /\ HtmlIdle /\ DispatchIdle /\ CallIdle
    /\ AuxIdle

SpecValidate == ValidateSpecInit /\ [][ValidateNext]_vars

DispatchNext ==
  \/ (TokenCacheHit
        /\ UNCHANGED <<renderVars, contextVars, mailtoVars, htmlVars, validateVars, callVars, auxVars>>)
  \/ (TokenExpires
        /\ UNCHANGED <<renderVars, contextVars, mailtoVars, htmlVars, validateVars, callVars, auxVars>>)
  \/ (TokenGranted
        /\ UNCHANGED <<renderVars, contextVars, mailtoVars, htmlVars, validateVars, callVars, auxVars>>)
  \/ (TokenRefused
        /\ UNCHANGED <<renderVars, contextVars, mailtoVars, htmlVars, validateVars, callVars, auxVars>>)
  \/ (SendAccepted
        /\ UNCHANGED <<renderVars, contextVars, mailtoVars, htmlVars, validateVars, callVars, auxVars>>)
  \/ (SendForbidden
        /\ UNCHANGED <<renderVars, contextVars, mailtoVars, htmlVars, validateVars, callVars, auxVars>>)
  \/ (SendUnauthorized
        /\ UNCHANGED <<renderVars, contextVars, mailtoVars, htmlVars, validateVars, callVars, auxVars>>)
  \/ (RetryUnauthorized
        /\ UNCHANGED <<renderVars, contextVars, mailtoVars, htmlVars, validateVars, callVars, auxVars>>)
  \/ (ReturnBatch
        /\ UNCHANGED <<renderVars, contextVars, mailtoVars, htmlVars, validateVars, callVars, auxVars>>)

DispatchSpecInit ==
  DispatchInit /\ RenderIdle /\ ContextIdle /\ MailtoIdle /\ HtmlIdle /\ ValidateIdle /\ CallIdle
    /\ AuxIdle

SpecDispatch == DispatchSpecInit /\ [][DispatchNext]_vars

StripNext ==
  \/ (StripHtml /\ UNCHANGED <<baseVars, openVars, dialogVars, storeVars>>)
  \/ (StripAgain /\ UNCHANGED <<baseVars, openVars, dialogVars, storeVars>>)

StripSpecInit == StripInit /\ BaseIdle /\ OpenIdle /\ DialogIdle /\ StoreIdle

OpenNext ==
  \/ (UrlThrows /\ UNCHANGED <<baseVars, stripVars, dialogVars, storeVars>>)
  \/ (SetTimer /\ UNCHANGED <<baseVars, stripVars, dialogVars, storeVars>>)
  \/ (SkipTimer /\ UNCHANGED <<baseVars, stripVars, dialogVars, storeVars>>)
  \/ (TimerFires /\ UNCHANGED <<baseVars, stripVars, dialogVars, storeVars>>)
  \/ (StartOpen /\ UNCHANGED <<baseVars, stripVars, dialogVars, storeVars>>)
  \/ (OpenResolves /\ UNCHANGED <<baseVars, stripVars, dialogVars, storeVars>>)
  \/ (OpenRejects /\ UNCHANGED <<baseVars, stripVars, dialogVars, storeVars>>)
  \/ (ReturnOpened /\ UNCHANGED <<baseVars, stripVars, dialogVars, storeVars>>)

OpenSpecInit == OpenInit /\ BaseIdle /\ StripIdle /\ DialogIdle /\ StoreIdle

SpecOpen == OpenSpecInit /\ [][OpenNext]_vars

DialogNext ==
  \/ (OpenDialog /\ UNCHANGED <<baseVars, stripVars, openVars, storeVars>>)
  \/ (CloseDialog /\ UNCHANGED <<baseVars, stripVars, openVars, storeVars>>)
  \/ (ClickSend /\ UNCHANGED <<baseVars, stripVars, openVars, storeVars>>)
  \/ (RunSucceeds /\ UNCHANGED <<baseVars, stripVars, openVars, storeVars>>)
  \/ (RunFails /\ UNCHANGED <<baseVars, stripVars, openVars, storeVars>>)
  \/ (DismissMessage /\ UNCHANGED <<baseVars, stripVars, openVars, storeVars>>)

DialogSpecInit == DialogInit /\ BaseIdle /\ StripIdle /\ OpenIdle /\ StoreIdle

SpecDialog == DialogSpecInit /\ [][DialogNext]_vars

StoreNext ==
  \/ (SaveSettings /\ UNCHANGED <<baseVars, stripVars, openVars, dialogVars>>)
  \/ (LoadSettings /\ UNCHANGED <<baseVars, stripVars, openVars, dialogVars>>)

StoreSpecInit == StoreInit /\ BaseIdle /\ StripIdle /\ OpenIdle /\ DialogIdle

SpecStore == StoreSpecInit /\ [][StoreNext]_vars

SpecStrip == StripSpecInit /\ [][StripNext]_vars

\* ------------------------------------------------------------------------
\* Properties of sendCredentialEmails (specification Spec)
\* ------------------------------------------------------------------------

IsPrefix(p, q) == Len(p) <= Len(q) /\ SubSeq(q, 1, Len(p)) = p

\* the request has an email address that is not blank
HasEmail(request) ==
  request.user.email.tag = "str" /\ Trim(request.user.email.s) # <<>>

\* the override when it is neither null nor undefined, otherwise the value
\* stored on the user, otherwise none
ResolvedCredential(request, t) ==
  LET override == IF t = "pin" THEN request.pinOverride ELSE request.otpOverride
      stored == IF t = "pin" THEN request.user.shortId ELSE request.user.otp
  IN IF override.tag \notin {"null", "undefined"} THEN override
     ELSE IF stored.tag \notin {"null", "undefined"} THEN stored
     ELSE Null

\* C1: whenever the call returns a result, success + failed is the number
\* of requests, for both credential kinds and both delivery methods.
C1_SuccessPlusFailedIsN ==
  pc = "returned" => result.success + result.failed = Len(requests)

\* a returned batch of three with a request rejected before dispatch, a
\* delivered message and a failed dispatch
C1_Witness ==
  /\ pc = "returned"
  /\ Len(requests) = 3
  /\ Len(templateErrors) = 1
  /\ result.success = 1
  /\ result.failed = 2

WellFormedMessage(m) ==
  /\ m.to # <<>> /\ Trim(m.to) = m.to
  /\ m.subject # <<>> /\ Trim(m.subject) = m.subject
  /\ m.body # <<>> /\ Trim(m.body) = m.body
  /\ \E i \in 1..Len(requests) :
       HasEmail(requests[i]) /\ m.to = Trim(requests[i].user.email.s)

\* C4: every message handed to a dispatcher has a recipient, a subject and
\* a body that are non-empty and trimmed, and its recipient is the trimmed
\* address of a request that has an email.
C4_MessagesAreComplete ==
  /\ \A k \in 1..Len(drafts) : WellFormedMessage(drafts[k])
  /\ \A c \in 1..Len(graphCalls) :
       \A k \in 1..Len(graphCalls[c]) : WellFormedMessage(graphCalls[c][k])
  /\ Len(drafts) <= Cardinality({i \in 1..Len(requests) : HasEmail(requests[i])})

\* a dispatched batch in which one request had a blank email and another
\* rendered an empty subject
C4_Witness ==
  /\ pc \in {"desktop", "graph"}
  /\ Len(drafts) = 1
  /\ \E i \in 1..Len(requests) : ~HasEmail(requests[i])
  /\ \E k \in 1..Len(templateErrors) :
       templateErrors[k] = EmptyRenderError(<<"fay">>)

\* C5: once the configuration check has passed the call never rejects.
C5_OnlyConfigurationErrorIsThrown ==
  pc = "rejected" => thrown = ConfigurationError

\* C6: when nothing is stored the call fails with the configuration error
\* before any template is rendered and before any dispatch.
C6_FailsFastWithoutSettings ==
  /\ (~store.present /\ pc \notin {"idle", "loadSettings"}) =>
        pc = "rejected" /\ thrown = ConfigurationError
  /\ (pc = "rejected" /\ thrown = ConfigurationError) =>
        renders = 0 /\ attempts = <<>> /\ graphCalls = <<>> /\ drafts = <<>>

\* a batch of several requests rejected because nothing is stored
C6_Witness ==
  /\ pc = "rejected"
  /\ thrown = ConfigurationError
  /\ Len(requests) >= 2
  /\ \E i \in 1..Len(requests) : requests[i].user = Ann

\* the template in force for credential kind t under the stored settings st
TemplateUnder(st, t) == TemplateFor(loadSettings(st).emailSettings, t)

DeliverableUnder(st, t, request) ==
  /\ HasEmail(request)
  /\ Truthy(ResolvedCredential(request, t))
  /\ LET tokens == createContext(request, t).tokens
     IN /\ Trim(RenderTemplate(TemplateUnder(st, t).subject, tokens)) # <<>>
        /\ Trim(RenderTemplate(TemplateUnder(st, t).body, tokens)) # <<>>

\* the deliverable requests for each stored settings and kind, evaluated once
DeliverableRequests ==
  [st \in StoredSettings |->
    [t \in CredentialTypes |-> {r \in RequestKinds : DeliverableUnder(st, t, r)}]]

Deliverable(request) == request \in DeliverableRequests[store][type]

RECURSIVE Undeliverable(_)
Undeliverable(reqs) ==
  IF reqs = <<>> THEN <<>>
  ELSE (IF Deliverable(Head(reqs)) THEN <<>> ELSE <<Head(reqs)>>)
         \o Undeliverable(Tail(reqs))

\* C8: desktop, every open succeeding: success counts the requests that
\* have an email, a credential and a non-empty rendered subject and body,
\* failed counts the others, and errors names each of the others.
C8_DesktopCounts ==
  (pc = "returned" /\ result.method = "desktop" /\ opened = Len(drafts)) =>
    LET rest == Undeliverable(requests)
    IN /\ result.success = Len(requests) - Len(rest)
       /\ result.failed = Len(rest)
       /\ Len(result.errors) = Len(rest)
       /\ \A k \in 1..Len(rest) :
            IsPrefix(rest[k].user.userName, result.errors[k])

\* scenario A: a missing email, a missing PIN and a valid request
C8_Witness ==
  /\ pc = "returned"
  /\ result.method = "desktop"
  /\ type = "pin"
  /\ Len(requests) = 3
  /\ result.success = 1
  /\ result.failed = 2
  /\ MissingEmailError(<<"bob">>) \in Range(result.errors)
  /\ NoValueError(<<"eve">>, "pin") \in Range(result.errors)

\* C10: in the desktop channel every prepared draft is attempted exactly
\* once, in input order, whatever the outcome of the earlier opens; a failed
\* open adds one error prefixed with the recipient's address and is not
\* counted as opened.
C10_EveryDraftIsAttempted ==
  /\ Len(attempts) = index
  /\ \A k \in 1..Len(attempts) : IsPrefix(<<"mailto:">> \o drafts[k].to, attempts[k])
  /\ graphCalls = <<>> =>
       /\ opened + Len(errors) = Len(attempts)
       /\ \E failed \in SUBSET (1..Len(attempts)) :
            /\ Cardinality(failed) = Len(errors)
            /\ \A k \in 1..Len(errors) :
                 \E j \in failed : IsPrefix(drafts[j].to \o <<": ">>, errors[k])
  /\ (pc \in {"returned", "rejected"} /\ drafts # <<>> /\ graphCalls = <<>>) =>
        Len(attempts) = Len(drafts)

\* the request has neither an email address nor a credential of kind t
LacksBoth(request, t) ==
  ~HasEmail(request) /\ ~Truthy(ResolvedCredential(request, t))

\* how many entries of es begin with the user name
ErrorsNaming(userName, es) ==
  Cardinality({k \in 1..Len(es) : IsPrefix(userName, es[k])})

\* C23: in the desktop path result.errors has result.failed entries, one
\* for every request not counted as a success, and a request lacking both
\* an email and a credential contributes the missing-email error only.
C23_DesktopErrorsMatchFailed ==
  (pc = "returned" /\ result.method = "desktop") =>
    /\ Len(result.errors) = result.failed
    /\ Len(result.errors) = Len(requests) - result.success
    /\ \A k \in 1..Len(requests) :
         LacksBoth(requests[k], type) =>
           LET name == requests[k].user.userName
           IN /\ MissingEmailError(name) \in Range(result.errors)
              /\ NoValueError(name, type) \notin Range(result.errors)
              /\ ErrorsNaming(name, result.errors)
                   = Cardinality({j \in 1..Len(requests) :
                                    requests[j].user.userName = name})

\* a request without email and credential, a delivered draft and a draft
\* whose open failed
C23_Witness ==
  /\ pc = "returned"
  /\ result.method = "desktop"
  /\ Len(requests) = 3
  /\ \E k \in 1..3 : LacksBoth(requests[k], type)
  /\ result.success = 1
  /\ result.failed = 2
  /\ Len(errors) = 1

\* C27: when no request survives validation, neither dispatcher is invoked
\* (no draft is opened, sendGraphEmails is not called) and the call returns
\* the configured method, success 0, failed N and the N validation errors.
C27_NothingDispatchedWithoutDrafts ==
  (pc # "idle" /\ Undeliverable(requests) = requests) =>
    /\ attempts = <<>>
    /\ graphCalls = <<>>
    /\ pc \notin {"desktop", "graph"}
    /\ pc = "returned" =>
         /\ result.method = emailSettings.method
         /\ result.success = 0
         /\ result.failed = Len(requests)
         /\ Len(result.errors) = Len(requests)
         /\ \A k \in 1..Len(requests) :
              IsPrefix(requests[k].user.userName, result.errors[k])

\* two requests, both rejected, under Graph delivery
C27_Witness ==
  /\ pc = "returned"
  /\ emailSettings.method = "graph"
  /\ Len(requests) = 2
  /\ Undeliverable(requests) = requests
  /\ result.method = "graph"
  /\ result.failed = 2
  /\ graphCalls = <<>>

\* ------------------------------------------------------------------------
\* Properties of createContext (specification SpecContext)
\* ------------------------------------------------------------------------

\* C7 as stated: whenever no credential value results, the request has no
\* context and exactly the no-value error is recorded for it.
C7_NoValueErrorForEveryRequest ==
  (cPc = "created" /\ ResolvedCredential(cRequest, cType) = Null) =>
     /\ ~cResult.ok
     /\ cResult.error = NoValueError(cRequest.user.userName, cType)

\* C7, amended: for a request that has an email, the credential is the
\* override when that is neither null nor undefined, otherwise the stored
\* value, otherwise none; when none results there is no context and the
\* error is "<userName>: no <KIND> value is available to send."
C7_NoValueErrorWhenEmailPresent ==
  (cPc = "created" /\ HasEmail(cRequest)) =>
     /\ ResolvedCredential(cRequest, cType) = Null =>
          /\ ~cResult.ok
          /\ cResult.error =
               cRequest.user.userName
                 \o <<": no ", IF cType = "pin" THEN "PIN" ELSE "OTP",
                      " value is available to send.">>
     /\ cResult.ok =>
          /\ cResult.tokens.pin = OrEmpty(ResolvedCredential(cRequest, "pin"))
          /\ cResult.tokens.otp = OrEmpty(ResolvedCredential(cRequest, "otp"))
          /\ ResolvedCredential(cRequest, cType) # Null

\* an OTP request with an email, a null override and nothing stored
C7_Witness ==
  /\ cPc = "created"
  /\ cType = "otp"
  /\ HasEmail(cRequest)
  /\ cRequest.otpOverride = Null
  /\ cRequest.user.otp = Undefined
  /\ cResult.error = <<"ann", ": no ", "OTP", " value is available to send.">>

\* ------------------------------------------------------------------------
\* Properties of renderTemplate (specification SpecRender)
\* ------------------------------------------------------------------------

\* the text contains a literal {{...}} token
ContainsToken(text) == \E i \in 1..Len(text) : TokenMatchEnd(text, i) > 0

HasBrace(text) == "{" \in Range(text) \/ "}" \in Range(text)

\* every brace of the template lies inside a token that the replacement
\* finds
RECURSIVE BracesInTokensFrom(_, _)
BracesInTokensFrom(t, i) ==
  IF i > Len(t) THEN TRUE
  ELSE IF TokenMatchEnd(t, i) > 0 THEN BracesInTokensFrom(t, TokenMatchEnd(t, i) + 1)
  ELSE t[i] \notin {"{", "}"} /\ BracesInTokensFrom(t, i + 1)

\* C2 as stated: the output never contains a literal {{...}} token.
C2_OutputHasNoToken ==
  rPc = "rendered" => ~ContainsToken(rOutput)

\* C2, amended: the output contains no literal {{...}} token when no
\* context value contains a brace and every brace of the template belongs
\* to a token.
C2_OutputHasNoTokenWhenBracesAreTokens ==
  (/\ rPc = "rendered"
   /\ \A key \in TokenKeys : ~HasBrace(rTokens[key])
   /\ BracesInTokensFrom(rTemplate, 1)) =>
     ~ContainsToken(rOutput)

\* two tokens and text, the second token replaced by a value
C2_Witness ==
  /\ rPc = "rendered"
  /\ rTemplate = <<"{", "{", "nokey", "}", "}", "{", "{", " ", "fullName", " ",
                   "|", "|", " ", "pin", " ", "}", "}">>
  /\ rTokens.fullName = <<>>
  /\ rOutput = <<"1234">>

\* the leftmost candidate that is a context key with a non-empty value
RECURSIVE FirstNonEmpty(_, _)
FirstNonEmpty(cands, tokens) ==
  IF cands = <<>> THEN <<>>
  ELSE IF Head(cands) \in TokenKeys /\ tokens[Head(cands)] # <<>>
       THEN tokens[Head(cands)]
       ELSE FirstNonEmpty(Tail(cands), tokens)

\* C3: a token {{a || b || ...}} is replaced by the value of the leftmost
\* candidate whose context value is non-empty, and by the empty string when
\* there is none, also when a candidate is not a context key.
C3_LeftmostNonEmptyCandidate ==
  rPc = "rendered" =>
    \A cands \in CandidateLists, padded \in BOOLEAN :
      rTemplate = MkToken(cands, padded) => rOutput = FirstNonEmpty(cands, rTokens)

\* C9: a context value is inserted verbatim and not scanned again: a token
\* naming one context key renders as that key's value, also when the value
\* contains token text.
C9_ValuesAreInsertedVerbatim ==
  rPc = "rendered" =>
    \A key \in {"fullName", "pin"}, padded \in BOOLEAN :
      rTemplate = MkToken(<<key>>, padded) => rOutput = rTokens[key]

\* the full name is "{{pin}}" and the pin is set: the output is "{{pin}}"
C9_Witness ==
  /\ rPc = "rendered"
  /\ rTemplate = <<"{", "{", "fullName", "}", "}">>
  /\ rTokens.fullName = <<"{", "{", "pin", "}", "}">>
  /\ rTokens.pin = <<"1234">>
  /\ rOutput = <<"{", "{", "pin", "}", "}">>

\* ------------------------------------------------------------------------
\* Properties of the two channels (specification Spec)
\* ------------------------------------------------------------------------

\* the body the desktop channel puts in the URI of a draft
MailtoBody(d) == IF isHtmlContent(d.body) THEN Stripped(d.body) ELSE d.body

\* C11: in the desktop channel the URI of a draft carries stripHtml(body)
\* when isHtml classifies the body as HTML and the body itself otherwise,
\* with its line breaks normalised.
C11_HtmlBodiesAreStripped ==
  \A k \in 1..Len(attempts) :
    attempts[k] =
      <<"mailto:">> \o drafts[k].to
        \o <<"?subject=">> \o encodeURIComponent(drafts[k].subject)
        \o <<"&body=">> \o encodeURIComponent(NormalizeNewlines(MailtoBody(drafts[k])))

\* an HTML draft whose URI no longer carries the tags, and a plain draft
\* in another run is covered by the same formula
C11_Witness ==
  /\ attempts # <<>>
  /\ isHtmlContent(drafts[1].body)
  /\ stripHtml(drafts[1].body) # drafts[1].body
  /\ "%3C" \notin Range(attempts[1])

\* the message the Graph channel must receive for a deliverable request
ExpectedMessageUnder(st, t, request) ==
  LET tokens == createContext(request, t).tokens
      body == Trim(RenderTemplate(TemplateUnder(st, t).body, tokens))
  IN [to |-> Trim(request.user.email.s),
      subject |-> Trim(RenderTemplate(TemplateUnder(st, t).subject, tokens)),
      body |-> body,
      isHtml |-> isHtmlContent(body),
      contentType |-> IF isHtmlContent(body) THEN "html" ELSE "text"]

\* evaluated once for each stored settings, kind and deliverable request
ExpectedMessageTable ==
  [st \in StoredSettings |->
    [t \in CredentialTypes |->
      [r \in DeliverableRequests[st][t] |-> ExpectedMessageUnder(st, t, r)]]]

ExpectedMessage(request) == ExpectedMessageTable[store][type][request]

RECURSIVE ExpectedMessages(_)
ExpectedMessages(reqs) ==
  IF reqs = <<>> THEN <<>>
  ELSE (IF Deliverable(Head(reqs)) THEN <<ExpectedMessage(Head(reqs))>> ELSE <<>>)
         \o ExpectedMessages(Tail(reqs))

\* C12: with method graph the dispatcher is invoked once with all prepared
\* messages in input order, subject and body as rendered, and contentType
\* "html" exactly when isHtml(body).
C12_GraphReceivesWholeBatch ==
  /\ Len(graphCalls) <= 1
  /\ graphCalls # <<>> =>
       /\ emailSettings.method = "graph"
       /\ graphCalls[1] = ExpectedMessages(requests)
  /\ (pc = "returned" /\ result.method = "graph" /\ drafts # <<>>) =>
       Len(graphCalls) = 1
  /\ attempts # <<>> => emailSettings.method = "desktop"

\* two HTML messages sent as they were rendered
C12_Witness ==
  /\ pc = "graph"
  /\ Len(graphCalls) = 1
  /\ Len(graphCalls[1]) = 2
  /\ graphCalls[1][1].contentType = "html"
  /\ "<" \in Range(graphCalls[1][1].body)
  /\ graphCalls[1][1].to # graphCalls[1][2].to

\* the entries of es are errors of the recipients of ds[from..], in order
RECURSIVE InDispatchOrder(_, _, _)
InDispatchOrder(es, ds, from) ==
  IF es = <<>> THEN TRUE
  ELSE \E j \in from..Len(ds) :
         /\ IsPrefix(ds[j].to \o <<": ">>, Head(es))
         /\ InDispatchOrder(Tail(es), ds, j + 1)

\* C20: result.errors is the validation errors in request order followed
\* by the dispatch errors in dispatch order.
C20_ValidationErrorsFirst ==
  pc = "returned" =>
    LET rest == Undeliverable(requests)
        n == Len(rest)
    IN /\ Len(result.errors) >= n
       /\ \A k \in 1..n : IsPrefix(rest[k].user.userName, result.errors[k])
       /\ SubSeq(result.errors, 1, n) = templateErrors
       /\ SubSeq(result.errors, n + 1, Len(result.errors)) = errors
       /\ InDispatchOrder(errors, drafts, 1)

\* a Graph batch with a validation error and a dispatch error
C20_Witness ==
  /\ pc = "returned"
  /\ result.method = "graph"
  /\ Len(templateErrors) = 1
  /\ Len(errors) = 1
  /\ Len(result.errors) = 2

\* ------------------------------------------------------------------------
\* Further properties of createContext and renderTemplate together
\* (specification SpecContext)
\* ------------------------------------------------------------------------

\* C19: for a user without a full name, {{fullName}} renders the userName.
C19_FullNameFallsBackToUserName ==
  (cPc = "created" /\ cResult.ok /\ cRequest.user.fullName.tag # "str") =>
     RenderTemplate(<<"{", "{", "fullName", "}", "}">>, cResult.tokens)
       = cRequest.user.userName

\* ------------------------------------------------------------------------
\* Properties of buildMailtoUrl (specification SpecMailto)
\* ------------------------------------------------------------------------

\* decodeURIComponent of one symbol
PercentDecode(c) ==
  CASE c = "%20" -> " "
    [] c = "%0A" -> "\n"
    [] c = "%0D" -> "\r"
    [] c = "%09" -> "\t"
    [] c = "%25" -> "%"
    [] c = "%26" -> "&"
    [] c = "%40" -> "@"
    [] OTHER -> c

decodeURIComponent(s) == [i \in 1..Len(s) |-> PercentDecode(s[i])]

\* the subject and body parameters of a mailto URL
SubjectParam(url) ==
  SubSeq(url, FirstAt(url, 1, "?subject=") + 1, FirstAt(url, 1, "&body=") - 1)

BodyParam(url) == SubSeq(url, FirstAt(url, 1, "&body=") + 1, Len(url))

\* the text with every LF that does not follow a CR turned into CRLF
RECURSIVE WithCRLF(_, _)
WithCRLF(text, i) ==
  IF i > Len(text) THEN <<>>
  ELSE (IF text[i] = "\n" /\ (i = 1 \/ text[i - 1] # "\r")
        THEN <<"\r", "\n">> ELSE <<text[i]>>)
         \o WithCRLF(text, i + 1)

RoundTrips ==
  /\ mPc = "built"
  /\ decodeURIComponent(SubjectParam(mUrl)) = mSubject
  /\ decodeURIComponent(BodyParam(mUrl)) = WithCRLF(mBody, 1)
  /\ NormalizeNewlines(WithCRLF(mBody, 1)) = WithCRLF(mBody, 1)

\* C13 as stated: for any subject and body the URL's parameters decode to
\* the subject and to the body with CRLF line breaks.
C13_MailtoRoundTripsForAnyInput ==
  mPc # "input" => RoundTrips

\* C13, amended: the same for any subject and body without an unpaired
\* surrogate.
C13_MailtoRoundTripsForWellFormedInput ==
  (mPc # "input" /\ LoneSurrogate \notin Range(mSubject) \cup Range(mBody)) =>
     RoundTrips

\* scenario C: subject "Hi there", body "line\nline"
C13_Witness ==
  /\ mPc = "built"
  /\ mSubject = <<"Hi", " ", "there">>
  /\ mBody = <<"line", "\n", "line">>
  /\ mUrl = <<"mailto:", "a", "@", "b.com", "?subject=", "Hi", "%20", "there",
              "&body=", "line", "%0D", "%0A", "line">>

\* ------------------------------------------------------------------------
\* Properties of isHtmlContent (specification SpecHtml)
\* ------------------------------------------------------------------------

\* names of recognised tags as they are written in the texts, in any case
RecognisedTagWords == {"P", "H3", "em", "Td"}

\* C14: isHtml is true for a text with an opening tag of the recognised
\* set in any letter case, and false for a text without any tag.
C14_RecognisedTagsAreHtml ==
  hPc = "classified" =>
    /\ (\E i \in 1..Len(hText), j \in 1..Len(hText) :
          /\ j > i + 1
          /\ hText[i] = "<"
          /\ hText[i + 1] \in RecognisedTagWords
          /\ hText[j] = ">") => hResult
    /\ ~(\E i \in 1..Len(hText), j \in 1..Len(hText) :
           i < j /\ hText[i] = "<" /\ hText[j] = ">") => ~hResult

\* an upper-case heading tag after text
C14_Witness ==
  /\ hPc = "classified"
  /\ hText = <<"Hello", "<", "H3", ">">>
  /\ hResult

\* ------------------------------------------------------------------------
\* Properties of validateEmailSettings (specification SpecValidate)
\* ------------------------------------------------------------------------

\* the value is missing or consists of white space
IsBlankField(value) ==
  value.tag # "str" \/ \A i \in 1..Len(value.s) : IsSpace(value.s[i])

AnyGraphFieldBlank(form) ==
  \/ IsBlankField(form.graphTenantId)
  \/ IsBlankField(form.graphClientId)
  \/ IsBlankField(form.graphClientSecret)
  \/ IsBlankField(form.graphSenderAddress)

TemplatesComplete(form) ==
  /\ ~IsBlankField(form.pinTemplate.subject) /\ ~IsBlankField(form.pinTemplate.body)
  /\ ~IsBlankField(form.otpTemplate.subject) /\ ~IsBlankField(form.otpTemplate.body)

\* C15: settings with method graph and one of the four Graph fields blank
\* are rejected by validateEmailSettings and no Graph send is made with
\* them; with complete templates, settings with method desktop are accepted
\* whatever the four fields are, and so are settings with method graph and
\* the four fields filled in.
C15_GraphFieldsRequiredOnlyForGraph ==
  /\ vPc \in {"validated", "dispatched"} =>
       /\ (vSettings.method = "graph" /\ AnyGraphFieldBlank(vSettings)) =>
             vProblem # <<>>
       /\ (/\ TemplatesComplete(vSettings)
           /\ vSettings.method = "desktop" \/ ~AnyGraphFieldBlank(vSettings)) =>
             vProblem = <<>>
  /\ vPc = "dispatched" =>
       /\ (vSettings.method = "graph" /\ AnyGraphFieldBlank(vSettings)) =>
             vSend = "rejected"
       /\ vSettings.method = "desktop" => vSend = "none"

\* method graph with only the sender address blank
C15_Witness ==
  /\ vPc = "dispatched"
  /\ vSettings.method = "graph"
  /\ vSettings.graphTenantId = Str(<<"id">>)
  /\ vSettings.graphClientId = Str(<<"id">>)
  /\ vSettings.graphClientSecret = Str(<<"id">>)
  /\ vSettings.graphSenderAddress = Str(<<" ">>)
  /\ vProblem = <<"Graph mail delivery requires a sender address.">>
  /\ vSend = "rejected"

\* ------------------------------------------------------------------------
\* Properties of the Graph dispatcher (specification SpecDispatch)
\* ------------------------------------------------------------------------

\* what happened for message k, in order
KindsOf(k) ==
  LET events == SelectSeq(gLog, LAMBDA ev : ev.k = k)
  IN [i \in 1..Len(events) |-> events[i].e]

CountIn(kinds, wanted) == Cardinality({i \in 1..Len(kinds) : kinds[i] \in wanted})

SendKinds == {"send 200", "send 401", "send 403"}

TokenRequestKinds == {"token granted", "token refused"}

Occurs(kinds, e) == \E i \in 1..Len(kinds) : kinds[i] = e

\* what happened for message k after its first 401
AfterUnauthorized(kinds) ==
  LET first == CHOOSE i \in 1..Len(kinds) :
                 kinds[i] = "send 401" /\ \A j \in 1..(i - 1) : kinds[j] # "send 401"
  IN SubSeq(kinds, first + 1, Len(kinds))

LastEvent == gLog[Len(gLog)]

Delivered == {k \in 1..gSent : Occurs(KindsOf(k), "send 200")}

\* the 401 empties the cache, and a successful retry is counted and leaves
\* the refreshed token in the cache
InvalidatedAndCounted ==
  /\ (gLog # <<>> /\ LastEvent.e = "send 401") => gToken = "Empty"
  /\ gSuccess = Cardinality(Delivered)
  /\ (/\ gLog # <<>>
      /\ LastEvent.e = "send 200"
      /\ Occurs(KindsOf(LastEvent.k), "send 401")) => gToken = "Cached"

\* C16 as stated: a message whose send returned 401 gets exactly one token
\* refresh and exactly one retry; the token is invalidated, a successful
\* retry is counted in success and the refreshed token stays cached.
C16_UnauthorizedIsRefreshedAndRetriedOnce ==
  /\ InvalidatedAndCounted
  /\ \A k \in 1..gSent :
       Occurs(KindsOf(k), "send 401") =>
         LET after == AfterUnauthorized(KindsOf(k))
         IN /\ CountIn(after, TokenRequestKinds) = 1
            /\ CountIn(after, SendKinds) = 1

\* C16 amended: a message whose send returned 401 gets exactly one token
\* request; it is retried exactly once if that request yields a token and
\* not at all otherwise; the token is invalidated, a successful retry is
\* counted in success and the refreshed token stays cached.
C16_UnauthorizedIsRetriedOnceWhenRefreshed ==
  /\ InvalidatedAndCounted
  /\ \A k \in 1..gSent :
       Occurs(KindsOf(k), "send 401") =>
         LET after == AfterUnauthorized(KindsOf(k))
         IN /\ CountIn(after, TokenRequestKinds) = 1
            /\ CountIn(after, SendKinds)
                 = (IF Occurs(after, "token granted") THEN 1 ELSE 0)

\* message 1 was answered 401, refreshed and delivered by the retry, and
\* message 2 found the refreshed token in the cache
C16_Witness ==
  /\ gPc = "returned"
  /\ Len(gMessages) >= 2
  /\ KindsOf(1) = <<"cache hit", "send 401", "token granted", "send 200">>
  /\ KindsOf(2)[1] = "cache hit"
  /\ gBatchResult.success >= 1

NoUnauthorizedSend == \A i \in 1..Len(gLog) : gLog[i].e # "send 401"

NoTokenFault == \A i \in 1..Len(gLog) : gLog[i].e \notin {"token refused", "token expired"}

\* at most one token request, and every message after the first finds the
\* token in the cache
TokenIsReused ==
  /\ CountIn([i \in 1..Len(gLog) |-> gLog[i].e], TokenRequestKinds) <= 1
  /\ \A k \in 2..Len(gMessages) : KindsOf(k) # <<>> => KindsOf(k)[1] = "cache hit"

\* C17 as stated: in a batch in which no send reports unauthorized, at most
\* one token request is made and every later message reuses the cached token.
C17_OneTokenRequestWithoutUnauthorized ==
  NoUnauthorizedSend => TokenIsReused

\* C17 amended: in a batch in which no send reports unauthorized, no token
\* request is refused and the cached token does not expire, at most one
\* token request is made and every later message reuses the cached token.
C17_OneTokenRequestWithoutFault ==
  (NoUnauthorizedSend /\ NoTokenFault) => TokenIsReused

\* a batch of several messages, the token requested for the first one
C17_Witness ==
  /\ gPc = "returned"
  /\ Len(gMessages) >= 2
  /\ NoUnauthorizedSend
  /\ NoTokenFault
  /\ KindsOf(1)[1] = "token granted"
  /\ \A k \in 2..Len(gMessages) : KindsOf(k)[1] = "cache hit"

\* one message at a time in input order, every failure recorded, and the
\* batch ends only when every message was handled
InOrderAndRecorded ==
  /\ \A i \in 1..(Len(gLog) - 1) : gLog[i].k <= gLog[i + 1].k
  /\ \A i \in 1..Len(gLog) : gLog[i].k <= gSent + 1
  /\ Len(gErrors) = gSent - Cardinality(Delivered)
  /\ gPc = "returned" =>
       /\ gSent = Len(gMessages)
       /\ gBatchResult.success + gBatchResult.failed = Len(gMessages)
       /\ Len(gBatchResult.errors) = gBatchResult.failed

\* C18 as stated: messages are sent one at a time in input order, a failure
\* is recorded and does not stop the batch, and every message gets at least
\* one send attempt.
C18_EveryMessageIsSent ==
  /\ InOrderAndRecorded
  /\ \A k \in 1..gSent : CountIn(KindsOf(k), SendKinds) >= 1

\* C18 amended: messages are sent one at a time in input order, a failure
\* is recorded and does not stop the batch, every message is taken up, and
\* every message for which a token is obtained gets at least one send
\* attempt.
C18_EveryMessageWithTokenIsSent ==
  /\ InOrderAndRecorded
  /\ \A k \in 1..gSent :
       /\ KindsOf(k) # <<>>
       /\ CountIn(KindsOf(k), {"cache hit", "token granted"}) >= 1
            => CountIn(KindsOf(k), SendKinds) >= 1

\* the send of message 1 failed and message 2 was sent after it
C18_Witness ==
  /\ gPc = "returned"
  /\ Len(gMessages) >= 2
  /\ Occurs(KindsOf(1), "send 403")
  /\ Occurs(KindsOf(2), "send 200")
  /\ gBatchResult.failed >= 1

\* ------------------------------------------------------------------------
\* Properties of the mailto URLs of the desktop channel (specification Spec)
\* ------------------------------------------------------------------------

\* C25: every mailto URL handed to openMailtoUrl carries a non-empty body:
\* stripping the markup of a rendered body that passed the non-empty check
\* never leaves an empty body.
C25_OpenedBodiesAreNonEmpty ==
  \A k \in 1..Len(attempts) : BodyParam(attempts[k]) # <<>>

\* ------------------------------------------------------------------------
\* Properties of stripHtml (specification SpecStrip)
\* ------------------------------------------------------------------------

\* some position of text starts a run of n symbols that all lie in chars
HasRun(text, chars, n) ==
  \E i \in 1..(Len(text) - n + 1) : \A j \in i..(i + n - 1) : text[j] \in chars

\* every line of text is its own trim()
LinesAreTrimmed(text) ==
  LET lines == SplitLines(text, <<>>)
  IN \A k \in 1..Len(lines) : Trim(lines[k]) = lines[k]

\* text neither starts nor ends with an empty line
NoOuterBlankLine(text) ==
  text # <<>> => text[1] # "\n" /\ text[Len(text)] # "\n"

\* C22: for every input the output of stripHtml has no run of three or
\* more newlines, no line with leading or trailing whitespace, no run of
\* two or more spaces or tabs and no leading or trailing blank line, and
\* stripHtml("<p>Hi</p><br>there") is "Hi\n\nthere".
C22_OutputIsNormalised ==
  sPc # "input" =>
    /\ ~HasRun(sText, {"\n"}, 3)
    /\ LinesAreTrimmed(sText)
    /\ ~HasRun(sText, {" ", "\t"}, 2)
    /\ NoOuterBlankLine(sText)
    /\ sHtml = BreakExample => sText = <<"Hi", "\n", "\n", "there">>

\* C24 as stated: for every input x, isHtml(stripHtml(x)) is false and
\* stripHtml(stripHtml(x)) = stripHtml(x).
C24_OutputIsPlainText ==
  sPc = "again" => ~isHtmlContent(sText) /\ sAgain = sText

\* the input has no "&" and no whitespace but space, tab and line feed
NoEntityNoReturn(html) == Range(html) \cap {"&", "\r"} = {}

\* C24: for every input x without "&" and without whitespace other than
\* space, tab and line feed, isHtml(stripHtml(x)) is false and
\* stripHtml(stripHtml(x)) = stripHtml(x).
C24_MarkupWithoutEntitiesBecomesPlainText ==
  (sPc = "again" /\ NoEntityNoReturn(sHtml)) =>
    ~isHtmlContent(sText) /\ sAgain = sText

\* an emphasised word with a closing paragraph tag
C24_Witness ==
  /\ sPc = "again"
  /\ sHtml = <<"<", "em", ">", "Hi", "<", "/", "p", ">">>
  /\ isHtmlContent(sHtml)
  /\ sText = <<"Hi">>
  /\ sAgain = sText

\* one left-to-right pass over text that replaces every entity it meets
RECURSIVE DecodeOnce(_)
DecodeOnce(text) ==
  IF text = <<>> THEN <<>>
  ELSE IF Len(text) >= 3 /\ text[1] = "&" /\ text[3] = ";"
            /\ text[2] \in {"amp", "lt", "gt"}
       THEN <<CASE text[2] = "amp" -> "&" [] text[2] = "lt" -> "<"
                [] text[2] = "gt" -> ">">>
              \o DecodeOnce(SubSeq(text, 4, Len(text)))
       ELSE <<text[1]>> \o DecodeOnce(Tail(text))

\* the input is text and entities only: no tag, no whitespace
TextAndEntities(html) ==
  Range(html) \cap {"<", ">", " ", "\t", "\n", "\r"} = {}

\* C26: stripHtml decodes every entity occurrence exactly once; the text
\* a decoded entity leaves is not decoded again, so "&amp;lt;" becomes
\* "&lt;".
C26_EntitiesAreDecodedOnce ==
  (sPc # "input" /\ TextAndEntities(sHtml)) =>
    /\ sText = DecodeOnce(sHtml)
    /\ sHtml = <<"&", "amp", ";", "lt", ";">> => sText = <<"&", "lt", ";">>

\* ------------------------------------------------------------------------
\* Properties of openMailDrafts (specification SpecOpen)
\* ------------------------------------------------------------------------

\* the events of drafts first..last when each open waits for the one before
\* it: for every draft but the first a timer, then the start and the end of
\* the open
RECURSIVE EventsInTurn(_, _)
EventsInTurn(first, last) ==
  IF first > last THEN <<>>
  ELSE (IF first > 0 THEN <<<<first, "timer">>>> ELSE <<>>)
         \o <<<<first, "start">>, <<first, "end">>>>
         \o EventsInTurn(first + 1, last)

LoggedEvents == [k \in 1..Len(oLog) |-> <<oLog[k].draft, oLog[k].event>>]

\* C21: the drafts are opened one after another in input order: the open
\* of draft i starts only after the open of draft i-1 has ended and after a
\* timer of i x 150 ms has run (no timer for the first), and the call
\* returns only after the last draft has been attempted.
C21_DraftsAreOpenedInTurn ==
  /\ IsPrefix(LoggedEvents, EventsInTurn(0, Len(oDrafts) - 1))
  /\ \A k \in 1..Len(oLog) :
       /\ oLog[k].event = "timer" => oLog[k].ms = oLog[k].draft * 150
       /\ (oLog[k].event = "start" /\ oLog[k].draft > 0) =>
            oLog[k].at - oLog[k - 1].at >= oLog[k].draft * 150
  /\ oPc = "returned" => LoggedEvents = EventsInTurn(0, Len(oDrafts) - 1)

\* three drafts, the second open failed, the call returned
C21_Witness ==
  /\ oPc = "returned"
  /\ Len(oDrafts) = 3
  /\ oOpened = 2
  /\ oErrors = 1
  /\ oClock >= 450
  /\ Len(oLog) = 8

\* ------------------------------------------------------------------------
\* Properties of ResultsDialog (specification SpecDialog)
\* ------------------------------------------------------------------------

InProgress == {k \in 1..Len(runs) : runs[k] = "sending"}

\* C28: at most one run of handleSendEmails is in progress at any time,
\* and sendingEmails is true for the whole duration of a run.
C28_AtMostOneRunInProgress ==
  /\ Cardinality(InProgress) <= 1
  /\ InProgress # {} => sendingEmails

\* ------------------------------------------------------------------------
\* Properties of the settings store (specification SpecStore)
\* ------------------------------------------------------------------------

CompleteTemplate(t) == t.subject # <<>> /\ t.body # <<>>

\* C29: whenever loadSettings returns a non-null value, its emailSettings
\* has a method and a non-empty subject and body for the PIN and the OTP
\* template, whatever was stored before.
C29_LoadedEmailSettingsAreComplete ==
  (kPc = "loaded" /\ ~kLoaded.isNull) =>
    /\ kLoaded.emailSettings.method # ""
    /\ CompleteTemplate(kLoaded.emailSettings.pinTemplate)
    /\ CompleteTemplate(kLoaded.emailSettings.otpTemplate)

\* a document without method and PIN template, loaded
C29_Witness ==
  /\ kPc = "loaded"
  /\ kSettings = NoSettings
  /\ kStore.present
  /\ kStore.doc.emailSettings.present
  /\ kStore.doc.emailSettings.method = ""
  /\ ~kStore.doc.emailSettings.pinTemplate.present
  /\ kLoaded.emailSettings.method = "desktop"
  /\ kLoaded.emailSettings.pinTemplate = DEFAULT_PIN_TEMPLATE

\* the value with a string trimmed
Trimmed(value) == IF value.tag = "str" THEN Str(Trim(value.s)) ELSE value

\* C30: loadSettings after saveSettings returns every field of the saved
\* settings, strings trimmed: tenant URL, API key, PIN length, the OTP
\* generation rules, the short-ID rules and the email settings.
C30_SavedSettingsAreLoaded ==
  (kPc = "loaded" /\ kSettings # NoSettings) =>
    /\ kLoaded.tenantUrl = Trimmed(kSettings.tenantUrl)
    /\ kLoaded.apiKey = Trimmed(kSettings.apiKey)
    /\ kLoaded.pinLength = kSettings.pinLength
    /\ kLoaded.otpLength = kSettings.otpLength
    /\ kLoaded.otpUseUppercase = kSettings.otpUseUppercase
    /\ kLoaded.otpUseLowercase = kSettings.otpUseLowercase
    /\ kLoaded.otpUseNumbers = kSettings.otpUseNumbers
    /\ kLoaded.otpUseSpecial = kSettings.otpUseSpecial
    /\ kLoaded.otpExcludeCharacters = Trimmed(kSettings.otpExcludeCharacters)
    /\ kLoaded.shortIdLength = kSettings.shortIdLength
    /\ kLoaded.shortIdUseUppercase = kSettings.shortIdUseUppercase
    /\ kLoaded.shortIdUseLowercase = kSettings.shortIdUseLowercase
    /\ kLoaded.shortIdUseNumbers = kSettings.shortIdUseNumbers
    /\ kLoaded.shortIdUseSpecial = kSettings.shortIdUseSpecial
    /\ kSettings.emailSettings.present =>
         StoredForm(kLoaded.emailSettings)
           = sanitizeEmailSettings(kSettings.emailSettings)

====
